---- MODULE Spec2Model ----
(***************************************************************************)
(* A model of the EcoMetrics backend (FastAPI + SQLAlchemy over MySQL):    *)
(* the eco_records, operation_logs and users tables and the request        *)
(* handlers of routers/data.py, routers/auth.py and routers/logs.py, with  *)
(* the token functions of auth.py.  Every request runs in its own database *)
(* session; a handler is a sequence of round trips (query, commit, refresh,*)
(* audit commit, reload), and the round trips of different requests        *)
(* interleave.  A round trip is one atomic step of the model.              *)
(***************************************************************************)
EXTENDS Integers, Sequences, FiniteSets, TLC

\* ------------------------------------------------------------------ bounds
MaxRequests == 3      \* requests received in one behaviour
MaxDate     == 2      \* calendar days 1..MaxDate
MaxVal      == 1      \* largest numeric quantity in a request
MaxUser     == 2      \* user ids 1..MaxUser
MaxBatch    == 2      \* longest import batch
MaxInFlight == 2      \* requests being handled at the same time
MaxFaults   == 1      \* failures injected in one behaviour
MaxLogs     == 3      \* rows of operation_logs at the start of the logs queries
MaxHours    == 50     \* the clock runs from hour 0 to hour MaxHours

Reqs  == 1..MaxInFlight
Dates == 1..MaxDate
Users == 1..MaxUser

VARIABLES
    eco_records,      \* the eco_records table: a set of rows
    operation_logs,   \* the operation_logs table: rows in insertion order
    next_id,          \* AUTO_INCREMENT of eco_records.id
    started,          \* requests received so far; also the wall clock
    request,          \* request[q]: the input of the request in slot q
    pc,               \* pc[q]: the round trip request q is about to make
    local,            \* local[q]: the handler's local variables and session
    response,         \* response[q]: what the client of q received
    faults,           \* the failures injected so far, in order
    users,            \* the users table: a set of rows
    clock             \* the server clock, in hours

vars == <<eco_records, operation_logs, next_id, started, request, pc, local, response, faults,
         users, clock>>

\* what the handlers of routers/data.py never write
authvars == <<users, clock>>

\* Optional[T]: None or one value
None    == {}
Some(v) == {v}
The(o)  == CHOOSE v \in o : TRUE

\* ------------------------------------------------------------------ schema
ApiFields == {"powerConsumption", "drinkingWater", "irrigationWater", "electricityPrice"}

\* the column an API field is stored in
Column(a) ==
    CASE a = "powerConsumption" -> "power_consumption"
      [] a = "drinkingWater"    -> "drinking_water"
      [] a = "irrigationWater"  -> "irrigation_water"
      [] a = "electricityPrice" -> "electricity_price"

\* a validator that lets every value through
validate_nothing(v) == TRUE

\* schemas.EcoRecordCreate.validate_positive / EcoRecordUpdate.validate_positive
validate_positive(v) == ~(v < 0)

\* EcoRecordCreate: a date and the four quantities, each validated
EcoRecordCreate_valid(rd) == \A a \in ApiFields : validate_positive(rd[a])

\* EcoRecordUpdate: any subset of the four quantities; a field left out is None
EcoRecordUpdate_valid(rd) == \A a \in DOMAIN rd : validate_positive(rd[a])

\* EcoRecordImport: a list of EcoRecordCreate
EcoRecordImport_valid(recs) == \A i \in 1..Len(recs) : EcoRecordCreate_valid(recs[i])

\* a confirm flag that is never looked at
validate_confirm_ignored(v) == TRUE

\* ClearDataRequest.validate_confirm
validate_confirm(v) == v

\* ------------------------------------------------------------------ rows
\* a date column without the unique index: no INSERT is refused
NoUniqueIndex(rows, d) == FALSE

\* models.EcoRecord.date is declared unique=True: the index refuses a second
\* row with a date that is already in the table
UniqueDateViolation(rows, d) == \E r \in rows : r.date = d

\* a lookup that ignores the id
RowOfAnyId(rows, id) == rows

RowById(rows, id)     == {r \in rows : r.id = id}
RowByDate(rows, d)    == {r \in rows : r.date = d}

\* a row as constructed by EcoRecord(...) and INSERTed
NewRow(id, rd, user, now) ==
    [id                |-> id,
     date              |-> rd.date,
     power_consumption |-> rd.powerConsumption,
     drinking_water    |-> rd.drinkingWater,
     irrigation_water  |-> rd.irrigationWater,
     electricity_price |-> rd.electricityPrice,
     created_by        |-> user,
     updated_by        |-> None,
     updated_at        |-> now]

\* the dict the handlers build for the audit log from a loaded row
Snapshot(r) ==
    [date             |-> r.date,
     powerConsumption |-> r.power_consumption,
     drinkingWater    |-> r.drinking_water,
     irrigationWater  |-> r.irrigation_water,
     electricityPrice |-> r.electricity_price]

\* the new_data dict of create_data, built from the request
NewData(rd) ==
    [date             |-> rd.date,
     powerConsumption |-> rd.powerConsumption,
     drinkingWater    |-> rd.drinkingWater,
     irrigationWater  |-> rd.irrigationWater,
     electricityPrice |-> rd.electricityPrice]

\* the number of millionths in one unit: efficiency is reported to 6 decimals
Millionths == 1000000

\* the number of hundredths in one unit: dailyCost is reported to 2 decimals
Hundredths == 100

\* the quotient p / w cut off after the 6th decimal, in millionths
Truncate6(p, w) == (p * Millionths) \div w

\* round(float(p) / w, 6) in millionths, for p >= 0 and w > 0: the nearest
\* millionth, and the even one when the quotient lies exactly between two
Round6(p, w) ==
    LET q   == (p * Millionths) \div w
        rem == (p * Millionths) % w
    IN  IF 2 * rem > w \/ (2 * rem = w /\ q % 2 = 1) THEN q + 1 ELSE q

\* calculate_efficiency_and_cost: efficiency in millionths, daily_cost in
\* hundredths
calculate_efficiency_and_cost(r) ==
    LET total_water == r.drinking_water + r.irrigation_water IN
    [efficiency |-> IF total_water > 0 THEN Round6(r.power_consumption, total_water) ELSE 0,
     daily_cost |-> r.power_consumption * r.electricity_price * Hundredths]

format_record_response(r) ==
    [id               |-> r.id,
     date             |-> r.date,
     powerConsumption |-> r.power_consumption,
     drinkingWater    |-> r.drinking_water,
     irrigationWater  |-> r.irrigation_water,
     electricityPrice |-> r.electricity_price,
     efficiency       |-> calculate_efficiency_and_cost(r).efficiency,
     dailyCost        |-> calculate_efficiency_and_cost(r).daily_cost,
     createdBy        |-> r.created_by,
     updatedBy        |-> r.updated_by,
     updatedAt        |-> r.updated_at]

\* ------------------------------------------------------------------ responses
NoResponse == [status |-> 0, success |-> FALSE, error |-> "", message |-> "",
               details |-> None, data |-> None]

\* FastAPI's answer to a body that fails pydantic validation
ValidationRejected ==
    [status |-> 422, success |-> FALSE, error |-> "Unprocessable Entity",
     message |-> "", details |-> None, data |-> None]

\* main.http_exception_handler: an HTTPException(status_code, detail)
HTTPException(status_code, detail) ==
    [status |-> status_code, success |-> FALSE, error |-> detail,
     message |-> detail, details |-> None, data |-> None]

\* a handler's returned dict with success True
Success(message, data) ==
    [status |-> 200, success |-> TRUE, error |-> "", message |-> message,
     details |-> None, data |-> data]

\* the pre-check raising instead of returning the failure body
PrecheckRaises == HTTPException(500, "Failed to create data record")

\* create_data, existing_record found by the pre-check
DuplicateDatePrecheck ==
    [status |-> 200, success |-> FALSE, error |-> "Validation failed",
     message |-> "Date already exists",
     details |-> Some([field |-> "date", code |-> "DUPLICATE_DATE"]),
     data |-> None]

\* the IntegrityError handled by the SQLAlchemyError clause
IntegrityErrorAsDatabaseError == HTTPException(500, "Database error")

\* create_data, except IntegrityError
DuplicateDateIntegrity ==
    [status |-> 200, success |-> FALSE, error |-> "Validation failed",
     message |-> "Date already exists",
     details |-> Some([field |-> "date", code |-> "DUPLICATE_DATE"]),
     data |-> None]

\* ------------------------------------------------------------------ audit log
\* the OperationLog row log_operation builds
LogEntry(user_id, action, record_id, old_data, new_data, description) ==
    [user_id     |-> user_id,
     action      |-> action,
     table_name  |-> "eco_records",
     record_id   |-> record_id,
     old_data    |-> old_data,
     new_data    |-> new_data,
     description |-> description,
     created_at  |-> clock]

\* a log table that keeps only its latest entry
log_operation_overwriting(logs, entry, write_ok) ==
    IF write_ok THEN <<entry>> ELSE logs

\* an audit write that stores the entry twice
log_operation_twice(logs, entry, write_ok) ==
    IF write_ok THEN logs \o <<entry, entry>> ELSE logs

\* auth.log_operation: db.add(log_entry); db.commit(); a failure is caught,
\* logged and rolled back, and nothing is raised
log_operation(logs, entry, write_ok) ==
    IF write_ok THEN Append(logs, entry) ELSE logs

\* log_operation without its except clauses: a failed write is raised
log_operation_reraising(write_ok) == ~write_ok

\* whether a failed write escapes log_operation: both except clauses of
\* log_operation end without raising
log_operation_raises(write_ok) == FALSE

\* ------------------------------------------------------------------ users
MinUsernameLen == 3
MinPasswordLen == 6
JWT_EXPIRE_HOURS == 24

\* a string of n characters c
Str(c, n) == [i \in 1..n |-> c]

\* UserRegister.validate_username / UserLogin.validate_username
validate_username(v) ==
    /\ Len(v) >= 1 /\ v[1] = "@"       \* v.startswith('@')
    /\ ~(Len(v) < MinUsernameLen)

\* a password of any length passes
validate_password_any(v) == TRUE

\* UserRegister.validate_password / UserLogin.validate_password
validate_password(v) == ~(Len(v) < MinPasswordLen)

\* UserRegister.validate_confirm_password: `values` holds the fields validated
\* so far that passed
validate_confirm_password(v, values) ==
    ~("password" \in DOMAIN values /\ v # values.password)

UserRegister_valid(r) ==
    LET values == IF validate_password(r.password)
                    THEN [password |-> r.password] ELSE << >>
    IN  /\ validate_username(r.username)
        /\ validate_password(r.password)
        /\ validate_confirm_password(r.confirmPassword, values)

UserLogin_valid(r) ==
    validate_username(r.username) /\ validate_password(r.password)

\* a username column without the unique index
NoUniqueUsername(rows, name) == FALSE

\* models.User.username is declared unique=True
UniqueUsernameViolation(rows, name) == \E u \in rows : u.username = name

UserByName(rows, name) == {u \in rows : u.username = name}
UserById(rows, id)     == {u \in rows : u.id = id}

\* users.id is AUTO_INCREMENT and no user is ever deleted
NextUserId(rows) == Cardinality(rows) + 1

\* a registration that stores the new user as an administrator
NewAdmin(id, r) ==
    [id |-> id, username |-> r.username, password |-> r.password,
     role |-> "admin", created_at |-> clock, updated_at |-> clock,
     last_login_at |-> None]

\* a row as constructed by User(username=..., password=..., role="user") and
\* INSERTed: created_at and updated_at take their server default, now()
NewUser(id, r) ==
    [id |-> id, username |-> r.username, password |-> r.password,
     role |-> "user", created_at |-> clock, updated_at |-> clock,
     last_login_at |-> None]

\* register, existing_user found by the pre-check
DuplicateUsernamePrecheck ==
    [status |-> 200, success |-> FALSE, error |-> "Validation failed",
     message |-> "Username already exists",
     details |-> Some([field |-> "username", code |-> "DUPLICATE_USERNAME"]),
     data |-> None]

\* register, except IntegrityError
DuplicateUsernameIntegrity ==
    [status |-> 200, success |-> FALSE, error |-> "Validation failed",
     message |-> "Username already exists",
     details |-> Some([field |-> "username", code |-> "DUPLICATE_USERNAME"]),
     data |-> None]

\* a comparison that accepts every password
PasswordIgnored(user, password) == FALSE

\* authenticate_user: "if user.password != password"
PasswordMismatch(user, password) == user.password # password

\* authenticate_user: the user, or False (None here)
authenticate_user(rows, username, password) ==
    LET user == UserByName(rows, username)
    IN  IF user = {} THEN None
        ELSE IF PasswordMismatch(The(user), password) THEN None
        ELSE user

\* ------------------------------------------------------------------ tokens
\* the data login puts into the token
TokenData(user) ==
    [user_id |-> user.id, username |-> user.username, role |-> user.role]

\* create_access_token at time t: the claims, the expiry and the signing key
create_access_token(data, t) ==
    [claims |-> data, exp |-> Some(t + JWT_EXPIRE_HOURS), key |-> "JWT_SECRET"]

\* a token that never expires
NeverExpired(token, t) == FALSE

\* jwt.decode: the exp claim, when present, is refused once it is in the past
Expired(token, t) == token.exp # None /\ The(token.exp) < t

\* verify_token at time t: the three claims, or None for the 401 "Invalid token"
verify_token(token, t) ==
    IF token.key # "JWT_SECRET" THEN None               \* JWTError: signature
    ELSE IF Expired(token, t) THEN None                  \* JWTError: expired
    ELSE IF \E c \in {"user_id", "username", "role"} : c \notin DOMAIN token.claims
      THEN None
    ELSE Some([c \in {"user_id", "username", "role"} |-> token.claims[c]])

\* The outcome of Depends(get_current_user): a status, a detail and, when the
\* caller is authenticated, the user.  `bearer` is the status HTTPBearer answers
\* a request without credentials with.
get_current_user(credentials, rows, t, bearer) ==
    IF credentials = None
      THEN [status |-> bearer, detail |-> "Not authenticated", user |-> None]
    ELSE LET token_data == verify_token(The(credentials), t) IN
      IF token_data = None
        THEN [status |-> 401, detail |-> "Invalid token", user |-> None]
      ELSE LET user == UserById(rows, The(token_data).user_id) IN
        IF user = {}
          THEN [status |-> 401, detail |-> "User not found", user |-> None]
          ELSE [status |-> 200, detail |-> "", user |-> user]

\* The outcome of Depends(get_current_admin_user)
get_current_admin_user(auth) ==
    IF auth.user # None /\ The(auth.user).role # "admin"
      THEN [status |-> 403, detail |-> "Access denied. Admin only.", user |-> None]
      ELSE auth

\* ------------------------------------------------------------------ state
NoRequest == [kind |-> "none"]

\* a username of the required form
Name(c) == <<"@", c, c>>

\* the users the deployment starts with: user 1 is the administrator, the others
\* are ordinary users; none has logged in yet
InitialUsers ==
    {[id |-> u, username |-> Name(IF u = 1 THEN "a" ELSE "b"),
      password |-> Str(IF u = 1 THEN "p" ELSE "q", MinPasswordLen),
      role |-> IF u = 1 THEN "admin" ELSE "user",
      created_at |-> 0, updated_at |-> 0,
      last_login_at |-> None] : u \in 1..2}

NoLocal ==
    [record   |-> None,      \* the ORM object the handler holds, as last loaded
     old_data |-> None,      \* the snapshot taken before the mutation
     expired  |-> FALSE,     \* the session expired its objects (commit or rollback)
     count    |-> 0,         \* clear_all_data: count
     imported |-> 0,         \* import_data: imported
     updated  |-> 0,         \* import_data: updated
     skipped  |-> 0,         \* import_data: skipped
     errors   |-> << >>,     \* import_data: errors
     new      |-> << >>,     \* import_data: objects added to the session, unflushed
     dirty    |-> {}]        \* import_data: loaded objects with assigned attributes

Init ==
    /\ eco_records = {}
    /\ operation_logs = << >>
    /\ next_id = 1
    /\ started = 0
    /\ request = [q \in Reqs |-> NoRequest]
    /\ pc = [q \in Reqs |-> "idle"]
    /\ local = [q \in Reqs |-> NoLocal]
    /\ response = [q \in Reqs |-> NoResponse]
    /\ faults = << >>
    /\ users = InitialUsers
    /\ clock = 0

\* the handler of request q ends with response r; get_db closes the session
Finish(q, r) ==
    /\ pc' = [pc EXCEPT ![q] = "done"]
    /\ response' = [response EXCEPT ![q] = r]
    /\ local' = [local EXCEPT ![q] = NoLocal]

\* the handler of request q goes on to its next round trip with locals loc
Goto(q, label, loc) ==
    /\ pc' = [pc EXCEPT ![q] = label]
    /\ local' = [local EXCEPT ![q] = loc]
    /\ UNCHANGED response

\* the failures fs (a sequence of their places) are injected in this step
Inject(fs) ==
    /\ Len(faults) + Len(fs) <= MaxFaults
    /\ faults' = faults \o fs

Failed(ok, place) == IF ok THEN << >> ELSE <<place>>

FreeSlots == {q \in Reqs : pc[q] \in {"idle", "done"}}

\* ------------------------------------------------------------------ requests
Valid(r) ==
    CASE r.kind = "create" -> EcoRecordCreate_valid(r.record_data)
      [] r.kind = "update" -> EcoRecordUpdate_valid(r.record_data)
      [] r.kind = "delete" -> TRUE
      [] r.kind = "clear"  -> validate_confirm(r.confirm)
      [] r.kind = "import" -> EcoRecordImport_valid(r.records)
      [] r.kind = "register" -> UserRegister_valid(r)
      [] r.kind = "login" -> UserLogin_valid(r)
      [] r.kind \in {"logout", "logs", "list"} -> TRUE

Entry(kind) ==
    CASE kind = "create" -> "create_check"
      [] kind = "update" -> "update_load"
      [] kind = "delete" -> "delete_load"
      [] kind = "clear"  -> "clear_count"
      [] kind = "import" -> "import_loop"
      [] kind = "register" -> "register_check"
      [] kind = "login" -> "login_authenticate"
      [] kind = "logout" -> "logout"
      [] kind = "logs" -> "logs"
      [] kind = "list" -> "list"

\* a request arrives and is given a free slot: the body is validated before the
\* handler runs
receive_request(r) ==
    /\ started < MaxRequests
    /\ FreeSlots # {}
    /\ started' = started + 1
    /\ LET q == CHOOSE s \in FreeSlots : \A t \in FreeSlots : s <= t IN
         /\ request' = [request EXCEPT ![q] = r]
         /\ IF Valid(r)
              THEN /\ pc' = [pc EXCEPT ![q] = Entry(r.kind)]
                   /\ local' = [local EXCEPT ![q] = NoLocal]
                   /\ response' = [response EXCEPT ![q] = NoResponse]
              ELSE Finish(q, ValidationRejected)
    /\ UNCHANGED <<eco_records, operation_logs, next_id, faults>>

\* ------------------------------------------------------------------ create_data
\* existing_record = db.query(EcoRecord).filter(date == ...).first()
create_data_check(q) ==
    /\ pc[q] = "create_check"
    /\ IF RowByDate(eco_records, request[q].record_data.date) # {}
         THEN Finish(q, DuplicateDatePrecheck)
         ELSE Goto(q, "create_commit", local[q])
    /\ UNCHANGED <<eco_records, operation_logs, next_id, started, request, faults>>

\* a create that goes on to its audit entry whether or not the record commit
\* succeeded
create_data_commit_then_log(q) ==
    /\ pc[q] = "create_commit"
    /\ \E db_ok \in BOOLEAN :
         /\ Inject(Failed(db_ok, "commit"))
         /\ LET rd  == request[q].record_data
                row == NewRow(next_id, rd, request[q].user, started)
            IN  IF UniqueDateViolation(eco_records, rd.date)
                  THEN /\ db_ok
                       /\ Finish(q, DuplicateDateIntegrity)
                       /\ UNCHANGED <<eco_records, next_id>>
                  ELSE IF ~db_ok
                  THEN /\ Goto(q, "create_log", [local[q] EXCEPT !.record = Some(row)])
                       /\ UNCHANGED <<eco_records, next_id>>
                  ELSE /\ eco_records' = eco_records \cup {row}
                       /\ next_id' = next_id + 1
                       /\ Goto(q, "create_refresh",
                               [local[q] EXCEPT !.record = Some(row), !.expired = TRUE])
    /\ UNCHANGED <<operation_logs, started, request>>

\* db.add(new_record); db.commit()
create_data_commit(q) ==
    /\ pc[q] = "create_commit"
    /\ \E db_ok \in BOOLEAN :
         /\ Inject(Failed(db_ok, "commit"))
         /\ LET rd  == request[q].record_data
                row == NewRow(next_id, rd, request[q].user, started)
            IN  IF UniqueDateViolation(eco_records, rd.date)
                  THEN \* IntegrityError: db.rollback()
                       /\ db_ok
                       /\ Finish(q, DuplicateDateIntegrity)
                       /\ UNCHANGED <<eco_records, next_id>>
                  ELSE IF ~db_ok
                  THEN \* SQLAlchemyError: db.rollback()
                       /\ Finish(q, HTTPException(500, "Database error"))
                       /\ UNCHANGED <<eco_records, next_id>>
                  ELSE /\ eco_records' = eco_records \cup {row}
                       /\ next_id' = next_id + 1
                       /\ Goto(q, "create_refresh",
                               [local[q] EXCEPT !.record = Some(row), !.expired = TRUE])
    /\ UNCHANGED <<operation_logs, started, request>>

\* db.refresh(new_record)
create_data_refresh(q) ==
    /\ pc[q] = "create_refresh"
    /\ LET cur == RowById(eco_records, The(local[q].record).id) IN
         IF cur = {}
           THEN \* InvalidRequestError, a SQLAlchemyError: db.rollback()
                Finish(q, HTTPException(500, "Database error"))
           ELSE Goto(q, "create_log", [local[q] EXCEPT !.record = cur, !.expired = FALSE])
    /\ UNCHANGED <<eco_records, operation_logs, next_id, started, request, faults>>

\* try: log_operation(..., ip_address=get_client_ip(request)) except Exception: logged
create_data_log(q) ==
    /\ pc[q] = "create_log"
    /\ \E ip_ok \in BOOLEAN, write_ok \in BOOLEAN :
         /\ Inject(Failed(ip_ok, "get_client_ip") \o Failed(write_ok, "log_operation"))
         /\ LET rd == request[q].record_data
                entry == LogEntry(request[q].user, "CREATE", Some(The(local[q].record).id),
                                  None, Some(NewData(rd)), <<"Created", rd.date>>)
            IN  IF ~ip_ok \/ log_operation_raises(write_ok)
                  THEN \* get_client_ip raised, log_operation is never called:
                       \* except Exception as log_error, logged
                       /\ ~ip_ok => write_ok
                       /\ Goto(q, "create_respond", local[q])
                       /\ UNCHANGED operation_logs
                  ELSE /\ operation_logs' = log_operation(operation_logs, entry, write_ok)
                       /\ Goto(q, "create_respond", [local[q] EXCEPT !.expired = TRUE])
    /\ UNCHANGED <<eco_records, next_id, started, request>>

\* return {"success": True, ..., "data": format_record_response(new_record)}
create_data_respond(q) ==
    /\ pc[q] = "create_respond"
    /\ LET cur == IF local[q].expired
                    THEN RowById(eco_records, The(local[q].record).id)
                    ELSE local[q].record
       IN  IF cur = {}
             THEN \* ObjectDeletedError, a SQLAlchemyError: db.rollback()
                  Finish(q, HTTPException(500, "Database error"))
             ELSE Finish(q, Success("Data record created successfully",
                                    Some(format_record_response(The(cur)))))
    /\ UNCHANGED <<eco_records, operation_logs, next_id, started, request, faults>>

\* ------------------------------------------------------------------ update_data
\* record = db.query(EcoRecord).filter(id == record_id).first(); old_data = {...}
update_data_load(q) ==
    /\ pc[q] = "update_load"
    /\ LET cur == RowById(eco_records, request[q].record_id) IN
         IF cur = {}
           THEN Finish(q, HTTPException(404, "Record not found"))
           ELSE Goto(q, "update_commit",
                     [local[q] EXCEPT !.record = cur, !.old_data = Some(Snapshot(The(cur)))])
    /\ UNCHANGED <<eco_records, operation_logs, next_id, started, request, faults>>

\* "if record_data.<field> is not None": the field was supplied
Supplied(rd, a) == a \in DOMAIN rd

\* the update_data dict: the supplied fields and their values
UpdateData(rd) == [a \in {b \in ApiFields : Supplied(rd, b)} |-> rd[a]]

\* The UPDATE the session flushes for an object loaded as `loaded` whose
\* attributes were assigned `assigned` (column -> value): a column is written
\* when its assigned value differs from the loaded one, on the row as it is now
FlushUpdate(cur, loaded, assigned, user, now) ==
    LET col(c) == IF c \in DOMAIN assigned /\ assigned[c] # loaded[c]
                    THEN assigned[c] ELSE cur[c]
    IN  [cur EXCEPT !.power_consumption = col("power_consumption"),
                    !.drinking_water    = col("drinking_water"),
                    !.irrigation_water  = col("irrigation_water"),
                    !.electricity_price = col("electricity_price"),
                    !.updated_by = IF Some(user) # loaded.updated_by
                                     THEN Some(user) ELSE cur.updated_by,
                    !.updated_at = now]

\* the attributes update_data assigns: one per supplied field
Assigned(rd) ==
    LET ud == UpdateData(rd)
    IN  [c \in {Column(a) : a \in DOMAIN ud} |->
            ud[CHOOSE a \in DOMAIN ud : Column(a) = c]]

\* record.<column> = ...; record.updated_by = ...; record.updated_at = ...; db.commit()
update_data_commit(q) ==
    /\ pc[q] = "update_commit"
    /\ \E db_ok \in BOOLEAN :
         /\ Inject(Failed(db_ok, "commit"))
         /\ LET cur == RowById(eco_records, request[q].record_id) IN
            IF cur = {} \/ ~db_ok
              THEN \* StaleDataError (the row is gone) or a database error:
                   \* except Exception: db.rollback()
                   /\ cur = {} => db_ok
                   /\ Finish(q, HTTPException(500, "Failed to update data record"))
                   /\ UNCHANGED eco_records
              ELSE LET row == FlushUpdate(The(cur), The(local[q].record),
                                          Assigned(request[q].record_data),
                                          request[q].user, started)
                   IN  /\ eco_records' = (eco_records \ cur) \cup {row}
                       /\ Goto(q, "update_refresh", [local[q] EXCEPT !.expired = TRUE])
    /\ UNCHANGED <<operation_logs, next_id, started, request>>

\* db.refresh(record)
update_data_refresh(q) ==
    /\ pc[q] = "update_refresh"
    /\ LET cur == RowById(eco_records, request[q].record_id) IN
         IF cur = {}
           THEN \* InvalidRequestError: except Exception: db.rollback()
                Finish(q, HTTPException(500, "Failed to update data record"))
           ELSE Goto(q, "update_log", [local[q] EXCEPT !.record = cur, !.expired = FALSE])
    /\ UNCHANGED <<eco_records, operation_logs, next_id, started, request, faults>>

\* log_operation(..., ip_address=get_client_ip(request))
update_data_log(q) ==
    /\ pc[q] = "update_log"
    /\ \E ip_ok \in BOOLEAN, write_ok \in BOOLEAN :
         /\ Inject(Failed(ip_ok, "get_client_ip") \o Failed(write_ok, "log_operation"))
         /\ LET entry == LogEntry(request[q].user, "UPDATE", Some(The(local[q].record).id),
                                  local[q].old_data,
                                  Some(UpdateData(request[q].record_data)),
                                  <<"Updated", The(local[q].record).date>>)
            IN  IF ~ip_ok \/ log_operation_raises(write_ok)
                  THEN \* get_client_ip raised: except Exception: db.rollback(); 500
                       /\ ~ip_ok => write_ok
                       /\ Finish(q, HTTPException(500, "Failed to update data record"))
                       /\ UNCHANGED operation_logs
                  ELSE /\ operation_logs' = log_operation(operation_logs, entry, write_ok)
                       /\ Goto(q, "update_respond", [local[q] EXCEPT !.expired = TRUE])
    /\ UNCHANGED <<eco_records, next_id, started, request>>

\* return {"success": True, ..., "data": format_record_response(record)}
update_data_respond(q) ==
    /\ pc[q] = "update_respond"
    /\ LET cur == RowById(eco_records, request[q].record_id) IN
         IF cur = {}
           THEN \* ObjectDeletedError: except Exception: db.rollback()
                Finish(q, HTTPException(500, "Failed to update data record"))
           ELSE Finish(q, Success("Data record updated successfully",
                                  Some(format_record_response(The(cur)))))
    /\ UNCHANGED <<eco_records, operation_logs, next_id, started, request, faults>>

\* ------------------------------------------------------------------ delete_data
\* record = db.query(EcoRecord).filter(id == record_id).first(); old_data = {...}
delete_data_load(q) ==
    /\ pc[q] = "delete_load"
    /\ LET cur == RowById(eco_records, request[q].record_id) IN
         IF cur = {}
           THEN Finish(q, HTTPException(404, "Record not found"))
           ELSE Goto(q, "delete_commit",
                     [local[q] EXCEPT !.record = cur, !.old_data = Some(Snapshot(The(cur)))])
    /\ UNCHANGED <<eco_records, operation_logs, next_id, started, request, faults>>

\* a DELETE that matches no row
DeleteNoRow(rows, id) == rows

\* the rows left by DELETE FROM eco_records WHERE id = ...
DeleteRow(rows, id) == {r \in rows : r.id # id}

\* db.delete(record); db.commit()
delete_data_commit(q) ==
    /\ pc[q] = "delete_commit"
    /\ \E db_ok \in BOOLEAN :
         /\ Inject(Failed(db_ok, "commit"))
         /\ IF ~db_ok
              THEN /\ Finish(q, HTTPException(500, "Failed to delete data record"))
                   /\ UNCHANGED eco_records
              ELSE /\ eco_records' = DeleteRow(eco_records, request[q].record_id)
                   /\ Goto(q, "delete_log", local[q])
    /\ UNCHANGED <<operation_logs, next_id, started, request>>

\* log_operation(..., ip_address=get_client_ip(request)); return {"success": True}
delete_data_log(q) ==
    /\ pc[q] = "delete_log"
    /\ \E ip_ok \in BOOLEAN, write_ok \in BOOLEAN :
         /\ Inject(Failed(ip_ok, "get_client_ip") \o Failed(write_ok, "log_operation"))
         /\ LET entry == LogEntry(request[q].user, "DELETE", Some(request[q].record_id),
                                  local[q].old_data, None,
                                  <<"Deleted", The(local[q].old_data).date>>)
            IN  IF ~ip_ok \/ log_operation_raises(write_ok)
                  THEN \* get_client_ip raised: except Exception: db.rollback(); 500
                       /\ ~ip_ok => write_ok
                       /\ Finish(q, HTTPException(500, "Failed to delete data record"))
                       /\ UNCHANGED operation_logs
                  ELSE /\ operation_logs' = log_operation(operation_logs, entry, write_ok)
                       /\ Finish(q, Success("Data record deleted successfully", None))
    /\ UNCHANGED <<eco_records, next_id, started, request>>

\* ------------------------------------------------------------------ clear_all_data
\* count = db.query(EcoRecord).count()
clear_all_data_count(q) ==
    /\ pc[q] = "clear_count"
    /\ Goto(q, "clear_commit", [local[q] EXCEPT !.count = Cardinality(eco_records)])
    /\ UNCHANGED <<eco_records, operation_logs, next_id, started, request, faults>>

\* the rows left by db.query(EcoRecord).delete()
DeleteAllRows(rows) == {}

\* db.query(EcoRecord).delete(); db.commit()
clear_all_data_commit(q) ==
    /\ pc[q] = "clear_commit"
    /\ \E db_ok \in BOOLEAN :
         /\ Inject(Failed(db_ok, "commit"))
         /\ IF ~db_ok
              THEN /\ Finish(q, HTTPException(500, "Failed to clear all data"))
                   /\ UNCHANGED eco_records
              ELSE /\ eco_records' = DeleteAllRows(eco_records)
                   /\ Goto(q, "clear_log", local[q])
    /\ UNCHANGED <<operation_logs, next_id, started, request>>

\* log_operation(..., ip_address=get_client_ip(request)); return {... deletedCount ...}
clear_all_data_log(q) ==
    /\ pc[q] = "clear_log"
    /\ \E ip_ok \in BOOLEAN, write_ok \in BOOLEAN :
         /\ Inject(Failed(ip_ok, "get_client_ip") \o Failed(write_ok, "log_operation"))
         /\ LET entry == LogEntry(request[q].user, "DELETE", None, None, None,
                                  <<"Cleared", local[q].count>>)
            IN  IF ~ip_ok \/ log_operation_raises(write_ok)
                  THEN /\ ~ip_ok => write_ok
                       /\ Finish(q, HTTPException(500, "Failed to clear all data"))
                       /\ UNCHANGED operation_logs
                  ELSE /\ operation_logs' = log_operation(operation_logs, entry, write_ok)
                       /\ Finish(q, Success("All data records deleted successfully",
                                            Some([deletedCount |-> local[q].count])))
    /\ UNCHANGED <<eco_records, next_id, started, request>>

\* ------------------------------------------------------------------ import_data
\* One pass of "for record_data in import_data.records" over records[i..], on the
\* rows the session reads (autoflush is off: objects added to the session are not
\* visible to the queries). `fails` holds the positions whose query raises.
RECURSIVE import_loop(_, _, _, _, _, _)
import_loop(records, i, rows, overwriteExisting, fails, st) ==
    IF i > Len(records) THEN st
    ELSE
      LET record_data == records[i]
          existing_record == RowByDate(rows, record_data.date)
          next ==
            IF i \in fails
              THEN \* except Exception as e: errors.append(...); continue
                   [st EXCEPT !.errors = Append(@, record_data.date)]
            ELSE IF existing_record # {}
              THEN IF overwriteExisting
                     THEN [st EXCEPT
                             !.dirty = {o \in @ : o.loaded # The(existing_record)}
                                       \cup {[loaded |-> The(existing_record),
                                              record_data |-> record_data]},
                             !.updated = @ + 1]
                     ELSE [st EXCEPT !.skipped = @ + 1]
              ELSE [st EXCEPT !.new = Append(@, record_data), !.imported = @ + 1]
      IN  import_loop(records, i + 1, rows, overwriteExisting, fails, next)

\* the whole loop of import_data, as one read of the table
import_data_loop(q) ==
    /\ pc[q] = "import_loop"
    /\ \E fails \in SUBSET (1..Len(request[q].records)) :
         /\ Inject([i \in 1..Cardinality(fails) |-> "query"])
         /\ Goto(q, "import_commit",
                 import_loop(request[q].records, 1, eco_records,
                             request[q].overwriteExisting, fails, local[q]))
    /\ UNCHANGED <<eco_records, operation_logs, next_id, started, request>>

\* the four quantities import_data assigns to an existing record
ImportAssigned(rd) ==
    [power_consumption |-> rd.powerConsumption,
     drinking_water    |-> rd.drinkingWater,
     irrigation_water  |-> rd.irrigationWater,
     electricity_price |-> rd.electricityPrice]

\* the flush of db.commit() in import_data is refused: an assigned object's row
\* is gone (StaleDataError), or an INSERT hits the unique index on date, against
\* the table or against an earlier INSERT of the same flush (IntegrityError)
ImportFlushFails(rows, loc) ==
    \/ \E o \in loc.dirty : RowById(rows, o.loaded.id) = {}
    \/ \E i \in 1..Len(loc.new) : UniqueDateViolation(rows, loc.new[i].date)
    \/ \E i, j \in 1..Len(loc.new) : i < j /\ loc.new[i].date = loc.new[j].date

\* the table after the flush: the UPDATEs of the assigned objects and the INSERTs
ImportFlush(rows, loc, first_id, user, now) ==
    LET touched == {o.loaded.id : o \in loc.dirty}
        updates == {FlushUpdate(The(RowById(rows, o.loaded.id)), o.loaded,
                                ImportAssigned(o.record_data), user, now) : o \in loc.dirty}
        inserts == {NewRow(first_id + i - 1, loc.new[i], user, now) : i \in 1..Len(loc.new)}
    IN  {r \in rows : r.id \notin touched} \cup updates \cup inserts

\* db.commit()
import_data_commit(q) ==
    /\ pc[q] = "import_commit"
    /\ \E db_ok \in BOOLEAN :
         /\ Inject(Failed(db_ok, "commit"))
         /\ IF ImportFlushFails(eco_records, local[q]) \/ ~db_ok
              THEN \* except Exception: db.rollback(); 500
                   /\ ImportFlushFails(eco_records, local[q]) => db_ok
                   /\ Finish(q, HTTPException(500, "Failed to import data"))
                   /\ UNCHANGED <<eco_records, next_id>>
              ELSE /\ eco_records' = ImportFlush(eco_records, local[q], next_id,
                                                 request[q].user, started)
                   /\ next_id' = next_id + Len(local[q].new)
                   /\ Goto(q, "import_log", local[q])
    /\ UNCHANGED <<operation_logs, started, request>>

\* log_operation(..., ip_address=get_client_ip(request)); return {... counts, errors}
import_data_log(q) ==
    /\ pc[q] = "import_log"
    /\ \E ip_ok \in BOOLEAN, write_ok \in BOOLEAN :
         /\ Inject(Failed(ip_ok, "get_client_ip") \o Failed(write_ok, "log_operation"))
         /\ LET loc == local[q]
                entry == LogEntry(request[q].user, "CREATE", None, None, None,
                                  <<"Imported", loc.imported, loc.updated, loc.skipped>>)
            IN  IF ~ip_ok \/ log_operation_raises(write_ok)
                  THEN /\ ~ip_ok => write_ok
                       /\ Finish(q, HTTPException(500, "Failed to import data"))
                       /\ UNCHANGED operation_logs
                  ELSE /\ operation_logs' = log_operation(operation_logs, entry, write_ok)
                       /\ Finish(q, Success("Data imported successfully",
                                            Some([imported |-> loc.imported,
                                                  updated  |-> loc.updated,
                                                  skipped  |-> loc.skipped,
                                                  errors   |-> loc.errors])))
    /\ UNCHANGED <<eco_records, next_id, started, request>>

\* ------------------------------------------------------------------ register
\* existing_user = db.query(User).filter(username == ...).first()
register_check(q) ==
    /\ pc[q] = "register_check"
    /\ IF UserByName(users, request[q].username) # {}
         THEN Finish(q, DuplicateUsernamePrecheck)
         ELSE Goto(q, "register_commit", local[q])
    /\ UNCHANGED <<eco_records, operation_logs, next_id, started, request, faults, users, clock>>

\* db.add(new_user); db.commit()
register_commit(q) ==
    /\ pc[q] = "register_commit"
    /\ \E db_ok \in BOOLEAN :
         /\ Inject(Failed(db_ok, "commit"))
         /\ LET row == NewUser(NextUserId(users), request[q]) IN
            IF UniqueUsernameViolation(users, request[q].username)
              THEN \* IntegrityError: db.rollback()
                   /\ db_ok
                   /\ Finish(q, DuplicateUsernameIntegrity)
                   /\ UNCHANGED users
            ELSE IF ~db_ok
              THEN \* SQLAlchemyError: db.rollback()
                   /\ Finish(q, HTTPException(500, "Database error during registration"))
                   /\ UNCHANGED users
              ELSE /\ users' = users \cup {row}
                   /\ Goto(q, "register_respond", [local[q] EXCEPT !.record = Some(row)])
    /\ UNCHANGED <<eco_records, operation_logs, next_id, started, request, clock>>

\* db.refresh(new_user); return {"success": True, ..., "data": {...}}
register_respond(q) ==
    /\ pc[q] = "register_respond"
    /\ LET cur == UserById(users, The(local[q].record).id) IN
         IF cur = {}
           THEN Finish(q, HTTPException(500, "Database error during registration"))
           ELSE Finish(q, Success("Registration successful",
                                  Some([id |-> The(cur).id, username |-> The(cur).username,
                                        role |-> The(cur).role])))
    /\ UNCHANGED <<eco_records, operation_logs, next_id, started, request, faults, users, clock>>

\* ------------------------------------------------------------------ login
\* the 401 of login
InvalidCredentials == HTTPException(401, "Invalid credentials")

\* user = authenticate_user(db, username, password); if not user: raise 401
login_authenticate(q) ==
    /\ pc[q] = "login_authenticate"
    /\ LET user == authenticate_user(users, request[q].username, request[q].password) IN
         IF user = None
           THEN Finish(q, InvalidCredentials)
           ELSE Goto(q, "login_commit", [local[q] EXCEPT !.record = user])
    /\ UNCHANGED <<eco_records, operation_logs, next_id, started, request, faults, users, clock>>

\* user.last_login_at = datetime.utcnow(); db.commit(): the UPDATE also sets
\* updated_at, declared onupdate=func.now(); the token and the response
login_commit(q) ==
    /\ pc[q] = "login_commit"
    /\ \E db_ok \in BOOLEAN :
         /\ Inject(Failed(db_ok, "commit"))
         /\ LET cur == UserById(users, The(local[q].record).id) IN
            IF cur = {} \/ ~db_ok
              THEN \* except SQLAlchemyError: 500
                   /\ cur = {} => db_ok
                   /\ Finish(q, HTTPException(500, "Database error during login"))
                   /\ UNCHANGED users
              ELSE LET user == [The(cur) EXCEPT !.last_login_at = Some(clock),
                                                !.updated_at = clock] IN
                   /\ users' = (users \ cur) \cup {user}
                   /\ Finish(q, Success("",
                         Some([token |-> create_access_token(TokenData(user), clock),
                               user  |-> [id |-> user.id, username |-> user.username,
                                          role |-> user.role,
                                          loginTime |-> user.last_login_at]])))
    /\ UNCHANGED <<eco_records, operation_logs, next_id, started, request, clock>>

\* ------------------------------------------------------------------ logout
\* the statuses HTTPBearer answers a request without credentials with: 403 in
\* the FastAPI releases up to 0.121, 401 from 0.122 on
BearerStatuses == {401, 403}

\* a logout that forgets the user's login
LogoutForgetsLogin(rows, user) ==
    (rows \ {user}) \cup {[user EXCEPT !.last_login_at = None]}

\* the users table after logout(current_user): nothing is written
AfterLogout(rows, user) == rows

\* current_user = Depends(get_current_user); return {"success": True, ...}
logout(q) ==
    /\ pc[q] = "logout"
    /\ \E bearer \in BearerStatuses :
         LET auth == get_current_user(request[q].credentials, users, clock, bearer) IN
           IF auth.user = None
             THEN /\ Finish(q, HTTPException(auth.status, auth.detail))
                  /\ UNCHANGED users
             ELSE /\ Finish(q, Success("Logout successful", None))
                  /\ users' = AfterLogout(users, The(auth.user))
    /\ UNCHANGED <<eco_records, operation_logs, next_id, started, request, faults, clock>>

\* ------------------------------------------------------------------ get_operation_logs
\* a date compared with a DateTime column is the midnight that begins it
Midnight(d) == d * 24

\* "if userId:": the parameter is given and is not 0
Truthy(o) == o # None /\ The(o) # 0

\* the filters of get_operation_logs on the log row e, joined with its user
LogMatches(e, r, rows) ==
    /\ UserById(rows, e.user_id) # {}
    /\ (r.startDate # None => e.created_at >= Midnight(The(r.startDate)))
    /\ (r.endDate # None => e.created_at <= Midnight(The(r.endDate)))
    /\ (Truthy(r.userId) => e.user_id = The(r.userId))
    /\ (r.action # None => e.action = The(r.action))

\* the ids (positions) of the rows of logs that pass the filters
LogMatching(logs, r, rows) == {i \in 1..Len(logs) : LogMatches(logs[i], r, rows)}

\* ORDER BY created_at DESC: every arrangement of the ids in which created_at
\* never increases; rows with equal created_at come in any order
CreatedAtDescOrders(logs, ids) ==
    {o \in [1..Cardinality(ids) -> ids] :
        /\ \A j, k \in 1..Cardinality(ids) : j # k => o[j] # o[k]
        /\ \A j, k \in 1..Cardinality(ids) :
             j < k => logs[o[j]].created_at >= logs[o[k]].created_at}

\* query.offset(offset).limit(limit).all()
OffsetLimit(seq, offset, limit) ==
    SubSeq(seq, offset + 1, IF offset + limit < Len(seq) THEN offset + limit ELSE Len(seq))

\* one element of formatted_logs
FormatLog(logs, i, rows) ==
    [id |-> i, userId |-> logs[i].user_id,
     username |-> The(UserById(rows, logs[i].user_id)).username,
     action |-> logs[i].action, recordId |-> logs[i].record_id,
     createdAt |-> logs[i].created_at]

\* the pagination dict with the page count taken as one more than the quotient
LogPaginationPlusOne(total, page, limit) ==
    LET total_pages == total \div limit + 1
    IN  [currentPage |-> page, totalPages |-> total_pages, totalCount |-> total,
         hasNext |-> page < total_pages, hasPrev |-> page > 1]

\* the pagination dict of get_operation_logs
LogPagination(total, page, limit) ==
    LET total_pages == (total + limit - 1) \div limit
    IN  [currentPage |-> page, totalPages |-> total_pages, totalCount |-> total,
         hasNext |-> page < total_pages, hasPrev |-> page > 1]

\* current_admin = Depends(get_current_admin_user); the query, the count, the page
get_operation_logs(q) ==
    /\ pc[q] = "logs"
    /\ \E bearer \in BearerStatuses :
         LET r    == request[q]
             auth == get_current_admin_user(
                         get_current_user(r.credentials, users, clock, bearer))
             ids  == LogMatching(operation_logs, r, users)
         IN  IF auth.user = None
               THEN Finish(q, HTTPException(auth.status, auth.detail))
               ELSE \E order \in CreatedAtDescOrders(operation_logs, ids) :
                      LET page == OffsetLimit(order, (r.page - 1) * r.limit, r.limit) IN
                      Finish(q, Success("",
                          Some([logs |-> [j \in 1..Len(page) |->
                                            FormatLog(operation_logs, page[j], users)],
                                pagination |-> LogPagination(Cardinality(ids),
                                                             r.page, r.limit)])))
    /\ UNCHANGED <<eco_records, operation_logs, next_id, started, request, faults, users, clock>>

\* ------------------------------------------------------------------ get_all_data
\* the rows whose date passes the filters of get_all_data
DateMatching(rows, r) ==
    {e \in rows :
        /\ (r.startDate # None => e.date >= The(r.startDate))
        /\ (r.endDate # None => e.date <= The(r.endDate))}

\* getattr(EcoRecord, sortBy.replace(...)): the column sorted by
SortColumn(sortBy) == IF sortBy = "date" THEN "date" ELSE Column(sortBy)

\* a sort that takes no notice of the direction asked for
AlwaysAscending(sortOrder) == FALSE

\* if sortOrder == "desc"
Descending(sortOrder) == sortOrder = "desc"

\* ORDER BY column ASC|DESC: every arrangement of the rows that is sorted on the
\* column; rows with equal values come in any order
SortedOrders(rows, column, sortOrder) ==
    {o \in [1..Cardinality(rows) -> rows] :
        /\ \A j, k \in 1..Cardinality(rows) : j # k => o[j] # o[k]
        /\ \A j, k \in 1..Cardinality(rows) :
             j < k => IF Descending(sortOrder) THEN o[j][column] >= o[k][column]
                                               ELSE o[j][column] <= o[k][column]}

\* date_range of the records returned
DateRange(records) ==
    IF records = << >> THEN None
    ELSE Some([start |-> CHOOSE d \in {records[j].date : j \in DOMAIN records} :
                            \A j \in DOMAIN records : d <= records[j].date,
               end   |-> CHOOSE d \in {records[j].date : j \in DOMAIN records} :
                            \A j \in DOMAIN records : d >= records[j].date])

\* the query, the count, the page and the response of get_all_data
get_all_data(q) ==
    /\ pc[q] = "list"
    /\ LET r     == request[q]
           rows  == DateMatching(eco_records, r)
           total == Cardinality(rows)
       IN  \E order \in SortedOrders(rows, SortColumn(r.sortBy), r.sortOrder) :
             LET records == IF Truthy(r.limit)
                              THEN OffsetLimit(order, (r.page - 1) * The(r.limit), The(r.limit))
                              ELSE order
                 pages   == IF Truthy(r.limit)
                              THEN (total + The(r.limit) - 1) \div The(r.limit)
                              ELSE 1
             IN  Finish(q, Success("",
                     Some([records |-> [j \in DOMAIN records |->
                                          format_record_response(records[j])],
                           pagination |-> [total |-> total, page |-> r.page,
                                           limit |-> r.limit, pages |-> pages],
                           summary |-> [totalRecords |-> total,
                                        dateRange |-> DateRange(records)]])))
    /\ UNCHANGED <<eco_records, operation_logs, next_id, started, request, faults, users, clock>>

\* ------------------------------------------------------------------ clock
\* time passes: the lifetime of a token, or an hour more than that
Tick ==
    /\ \E d \in {JWT_EXPIRE_HOURS, JWT_EXPIRE_HOURS + 1} :
         /\ clock + d <= MaxHours
         /\ clock' = clock + d
    /\ UNCHANGED <<eco_records, operation_logs, next_id, started, request, pc, local,
                   response, faults, users>>

\* ------------------------------------------------------------------ inputs
\* a record body whose four quantities are all v
UniformData(d, v) ==
    [date |-> d, powerConsumption |-> v, drinkingWater |-> v,
     irrigationWater |-> v, electricityPrice |-> v]

\* update bodies: the fields of S supplied, each with value v
PartialData(S, v) == [a \in S |-> v]

\* sequences over S of length lo..hi
SeqsOf(S, lo, hi) == UNION {[1..n -> S] : n \in lo..hi}

CreateRequests(callers, dates, vals) ==
    {[kind |-> "create", user |-> u, record_data |-> UniformData(d, v)] :
        u \in callers, d \in dates, v \in vals}

UpdateRequests(callers, ids, fieldsets, vals) ==
    {[kind |-> "update", user |-> u, record_id |-> id, record_data |-> PartialData(S, v)] :
        u \in callers, id \in ids, S \in fieldsets, v \in vals}

DeleteRequests(callers) ==
    {[kind |-> "delete", user |-> u, record_id |-> id] : u \in callers, id \in 1..next_id}

ClearRequests(callers) ==
    {[kind |-> "clear", user |-> u, confirm |-> c] : u \in callers, c \in BOOLEAN}

ImportRequests(callers, vals, lo, hi) ==
    {[kind |-> "import", user |-> u, records |-> recs, overwriteExisting |-> o] :
        u \in callers, o \in BOOLEAN,
        recs \in SeqsOf({UniformData(d, v) : d \in Dates, v \in vals}, lo, hi)}

CreateSteps(q) ==
    \/ create_data_check(q)
    \/ create_data_commit(q)
    \/ create_data_refresh(q)
    \/ create_data_log(q)
    \/ create_data_respond(q)

UpdateSteps(q) ==
    \/ update_data_load(q)
    \/ update_data_commit(q)
    \/ update_data_refresh(q)
    \/ update_data_log(q)
    \/ update_data_respond(q)

DeleteSteps(q) ==
    \/ delete_data_load(q)
    \/ delete_data_commit(q)
    \/ delete_data_log(q)

ClearSteps(q) ==
    \/ clear_all_data_count(q)
    \/ clear_all_data_commit(q)
    \/ clear_all_data_log(q)

ImportSteps(q) ==
    \/ import_data_loop(q)
    \/ import_data_commit(q)
    \/ import_data_log(q)

\* ------------------------------------------------------------------ Spec
\* Every handler of routers/data.py, requests overlapping: one caller, for each
\* body one valid and one negative quantity, import batches of MaxBatch records.
Requests ==
    CreateRequests({1}, Dates, {-1, MaxVal})
      \cup UpdateRequests({1}, 1..next_id, {{"powerConsumption"}}, {-1, 0})
      \cup DeleteRequests({1})
      \cup ClearRequests({1})
      \cup ImportRequests({1}, {-1, 0}, MaxBatch, MaxBatch)

Next ==
    \/ \E r \in Requests : receive_request(r) /\ UNCHANGED authvars
    \/ \E q \in Reqs : CreateSteps(q) /\ UNCHANGED authvars
    \/ \E q \in Reqs : UpdateSteps(q) /\ UNCHANGED authvars
    \/ \E q \in Reqs : DeleteSteps(q) /\ UNCHANGED authvars
    \/ \E q \in Reqs : ClearSteps(q) /\ UNCHANGED authvars
    \/ \E q \in Reqs : ImportSteps(q) /\ UNCHANGED authvars

Spec == Init /\ [][Next]_vars

\* ------------------------------------------------------------------ SpecImport
\* import_data against records made by create_data and removed by delete_data:
\* every batch of up to MaxBatch records, with and without overwriteExisting.
RequestsImport ==
    CreateRequests({1}, Dates, {MaxVal})
      \cup DeleteRequests({1})
      \cup ImportRequests({1}, {0}, 0, MaxBatch)

NextImport ==
    \/ \E r \in RequestsImport : receive_request(r) /\ UNCHANGED authvars
    \/ \E q \in Reqs : CreateSteps(q) /\ UNCHANGED authvars
    \/ \E q \in Reqs : DeleteSteps(q) /\ UNCHANGED authvars
    \/ \E q \in Reqs : ImportSteps(q) /\ UNCHANGED authvars

SpecImport == Init /\ [][NextImport]_vars

\* ------------------------------------------------------------------ SpecUpdate
\* update_data on the records create_data made for day 1: every caller, no field,
\* one field, two fields or all four supplied, the values -1 (refused), 0 and MaxVal.
FieldSets ==
    {{}, {"powerConsumption"}, {"drinkingWater", "electricityPrice"}, ApiFields}

RequestsUpdate ==
    CreateRequests({1}, {1}, {MaxVal})
      \cup UpdateRequests(Users, 1..(next_id - 1), FieldSets, {-1, 0, MaxVal})

NextUpdate ==
    \/ \E r \in RequestsUpdate : receive_request(r) /\ UNCHANGED authvars
    \/ \E q \in Reqs : CreateSteps(q) /\ UNCHANGED authvars
    \/ \E q \in Reqs : UpdateSteps(q) /\ UNCHANGED authvars

SpecUpdate == Init /\ [][NextUpdate]_vars

\* ------------------------------------------------------------------ SpecAuth
\* register, login, logout and the logs query as time passes, on the users the
\* deployment starts with and a log of one entry.
DefaultLimit == 20

\* the tokens login has issued to the users' latest logins
IssuedTokens ==
    {create_access_token(TokenData(u), The(u.last_login_at)) :
        u \in {v \in users : v.last_login_at # None}}

\* an issued token with another signature, and one with the role claim removed
Malformed(t) ==
    {[t EXCEPT !.key = "forged"],
     [t EXCEPT !.claims = [c \in {"user_id", "username"} |-> t.claims[c]]]}

\* the credentials c are accepted by Depends(get_current_user) in this state
Accepted(c) ==
    /\ c # None
    /\ verify_token(The(c), clock) # None
    /\ UserById(users, The(verify_token(The(c), clock)).user_id) # {}

\* what a client can send as Authorization: nothing, or a bearer token
Credentials ==
    {None} \cup {Some(t) : t \in IssuedTokens \cup UNION {Malformed(t) : t \in IssuedTokens}}

RegisterRequests ==
    {[kind |-> "register", username |-> n, password |-> pw[1], confirmPassword |-> pw[2]] :
        n \in {Name("b"), Name("c"), <<"@", "c">>, <<"c", "c", "c">>},
        pw \in {<<Str("r", MinPasswordLen), Str("r", MinPasswordLen)>>,
                <<Str("r", MinPasswordLen - 1), Str("r", MinPasswordLen - 1)>>,
                <<Str("r", MinPasswordLen), Str("s", MinPasswordLen)>>}}

LoginRequests ==
    {[kind |-> "login", username |-> n, password |-> pw] :
        n \in {Name("a"), Name("b"), Name("c")},
        pw \in {Str("p", MinPasswordLen), Str("q", MinPasswordLen),
                Str("p", MinPasswordLen - 1)}}

LogoutRequests == {[kind |-> "logout", credentials |-> c] : c \in Credentials}

LogsRequests(creds, pages, limits, dates, ids, actions) ==
    {[kind |-> "logs", credentials |-> c, page |-> p, limit |-> l,
      startDate |-> sd, endDate |-> ed, userId |-> u, action |-> a] :
        c \in creds, p \in pages, l \in limits,
        sd \in dates, ed \in dates, u \in ids, a \in actions}

RequestsAuth ==
    RegisterRequests \cup LoginRequests \cup LogoutRequests
      \cup LogsRequests(Credentials, {1}, {DefaultLimit}, {None}, {None}, {None})

\* the state after the first user cleared the empty table
InitAuth ==
    /\ clock = 0
    /\ users = InitialUsers
    /\ eco_records = {}
    /\ operation_logs = <<LogEntry(1, "DELETE", None, None, None, <<"Cleared", 0>>)>>
    /\ next_id = 1
    /\ started = 0
    /\ request = [q \in Reqs |-> NoRequest]
    /\ pc = [q \in Reqs |-> "idle"]
    /\ local = [q \in Reqs |-> NoLocal]
    /\ response = [q \in Reqs |-> NoResponse]
    /\ faults = << >>

NextAuth ==
    \/ \E r \in RequestsAuth :
         receive_request(r) /\ UNCHANGED authvars
    \/ \E q \in Reqs :
         register_check(q) \/ register_commit(q) \/ register_respond(q)
    \/ \E q \in Reqs : login_authenticate(q) \/ login_commit(q)
    \/ \E q \in Reqs : logout(q)
    \/ \E q \in Reqs : get_operation_logs(q)
    \/ Tick

SpecAuth == InitAuth /\ [][NextAuth]_vars

\* ------------------------------------------------------------------ SpecLogs
\* One logs query, with every combination of filters and two page sizes, on the
\* logs that earlier clearAll and import requests of the two users wrote around
\* the midnight that begins day 1.
LogTimes == {Midnight(1) - 1, Midnight(1), Midnight(1) + 1}

\* the entry of a clearAll of the empty table (DELETE) or of an import of no new
\* record (CREATE) by user u, written at time t
LogRow(u, a, t) ==
    [LogEntry(u, a, None, None, None,
              IF a = "DELETE" THEN <<"Cleared", 0>> ELSE <<"Imported", 0, 0, 0>>)
        EXCEPT !.created_at = t]

\* the tables of at most MaxLogs rows, in the order they were written
LogTables ==
    {s \in UNION {[1..n -> {LogRow(u, a, t) : u \in 1..2, a \in {"CREATE", "DELETE"},
                                              t \in LogTimes}] : n \in 0..MaxLogs} :
        \A i, j \in DOMAIN s : i < j => s[i].created_at <= s[j].created_at}

\* both users logged in at the hour the queries are made
LoggedIn(rows) ==
    {[u EXCEPT !.last_login_at = Some(Midnight(1) + 1), !.updated_at = Midnight(1) + 1] :
        u \in rows}

\* the tokens those logins issued
LoginTokens ==
    {Some(create_access_token(TokenData(u), The(u.last_login_at))) :
        u \in LoggedIn(InitialUsers)}

RequestsLogs ==
    LogsRequests(LoginTokens, {1, 2}, {2, DefaultLimit}, {None, Some(1)},
                 {None, Some(0), Some(2)}, {None, Some("DELETE")})

InitLogs ==
    /\ clock = Midnight(1) + 1
    /\ users = LoggedIn(InitialUsers)
    /\ eco_records = {}
    /\ operation_logs \in LogTables
    /\ next_id = 1
    /\ started = MaxRequests - 1
    /\ request = [q \in Reqs |-> NoRequest]
    /\ pc = [q \in Reqs |-> "idle"]
    /\ local = [q \in Reqs |-> NoLocal]
    /\ response = [q \in Reqs |-> NoResponse]
    /\ faults = << >>

NextLogs ==
    \/ \E r \in RequestsLogs :
         receive_request(r) /\ UNCHANGED authvars
    \/ \E q \in Reqs : get_operation_logs(q)

SpecLogs == InitLogs /\ [][NextLogs]_vars

\* ------------------------------------------------------------------ SpecList
\* get_all_data with and without a limit, both pages, every date filter, two
\* sort fields and both directions, on the tables create_data builds.
ListRequests(callers, pages, limits, dates, fields, orders) ==
    {[kind |-> "list", user |-> u, page |-> p, limit |-> l, startDate |-> sd,
      endDate |-> ed, sortBy |-> f, sortOrder |-> o] :
        u \in callers, p \in pages, l \in limits, sd \in dates, ed \in dates,
        f \in fields, o \in orders}

RequestsList ==
    CreateRequests({1}, Dates, {0, MaxVal})
      \cup ListRequests({1}, {1, 2}, {None, Some(1)}, {None, Some(MaxDate)},
                        {"date", "powerConsumption"}, {"asc", "desc"})

NextList ==
    \/ \E r \in RequestsList :
         receive_request(r) /\ UNCHANGED authvars
    \/ \E q \in Reqs : CreateSteps(q) /\ UNCHANGED authvars
    \/ \E q \in Reqs : get_all_data(q)

SpecList == Init /\ [][NextList]_vars

\* ------------------------------------------------------------------ SpecRead
\* Reads of one stored record whose power and water fields range over values
\* with exact, repeating and zero-divisor quotients, while updates change its
\* fields: get_all_data and the responses of update_data report efficiency.
PowerVals == {0, 1, 2, 100}
DrinkVals == {0, 1, 30}
IrrigVals == {0, 2, 20}

\* the tables of the one record of day 1, created by user 1
ReadTables ==
    {{NewRow(1, [date |-> 1, powerConsumption |-> p, drinkingWater |-> dw,
                 irrigationWater |-> iw, electricityPrice |-> 1], 1, 0)} :
        p \in PowerVals, dw \in DrinkVals, iw \in IrrigVals}

RequestsRead ==
    UpdateRequests({1}, {1}, {{"drinkingWater"}, {"powerConsumption", "irrigationWater"}},
                   {0, 30})
      \cup ListRequests({1}, {1}, {None}, {None}, {"date"}, {"desc"})

InitRead ==
    /\ eco_records \in ReadTables
    /\ operation_logs = << >>
    /\ next_id = 2
    /\ started = MaxRequests - 2
    /\ request = [q \in Reqs |-> NoRequest]
    /\ pc = [q \in Reqs |-> "idle"]
    /\ local = [q \in Reqs |-> NoLocal]
    /\ response = [q \in Reqs |-> NoResponse]
    /\ faults = << >>
    /\ users = InitialUsers
    /\ clock = 0

NextRead ==
    \/ \E r \in RequestsRead :
         receive_request(r) /\ UNCHANGED authvars
    \/ \E q \in Reqs : UpdateSteps(q) /\ UNCHANGED authvars
    \/ \E q \in Reqs : get_all_data(q)

SpecRead == InitRead /\ [][NextRead]_vars

\* ------------------------------------------------------------------ properties
Quantities == {"power_consumption", "drinking_water", "irrigation_water", "electricity_price"}

\* the response is the structured duplicate-date validation failure
IsDuplicateDate(r) ==
    /\ r.status = 200
    /\ ~r.success
    /\ r.details = Some([field |-> "date", code |-> "DUPLICATE_DATE"])

\* request q takes a step
Steps(q) == pc'[q] # pc[q] /\ pc[q] \notin {"idle", "done"}

\* C1: after any sequence and any interleaving of create, update, delete, clearAll
\* and importBatch requests, no two stored EcoRecords have the same date.
C1_UniqueDates ==
    \A r1, r2 \in eco_records : r1.date = r2.date => r1 = r2

\* two rows are stored and a create that passed its pre-check is about to INSERT
\* a date that has been stored in the meantime
C1_Witness ==
    /\ Cardinality(eco_records) = 2
    /\ \E q \in Reqs :
         /\ pc[q] = "create_commit"
         /\ UniqueDateViolation(eco_records, request[q].record_data.date)

\* C2: a create for a date that already has a record returns the structured
\* DUPLICATE_DATE validation failure (success false, field "date", not a 500),
\* leaves eco_records unchanged and writes no audit entry.
C2_DuplicateRejected ==
    [][\A q \in Reqs :
         /\ (/\ pc[q] = "create_check"
             /\ Steps(q)
             /\ RowByDate(eco_records, request[q].record_data.date) # {})
            => /\ pc'[q] = "done"
               /\ IsDuplicateDate(response'[q])
               /\ response'[q].status # 500
               /\ eco_records' = eco_records
               /\ operation_logs' = operation_logs
         /\ (/\ request[q].kind = "create"
             /\ Steps(q)
             /\ pc'[q] = "done"
             /\ IsDuplicateDate(response'[q]))
            => /\ eco_records' = eco_records
               /\ operation_logs' = operation_logs]_vars

\* the second request of a run, taken up after the first had finished, was a create
\* for the stored date and got the duplicate-date failure
C2_Witness ==
    /\ started = 2
    /\ request[2] = NoRequest
    /\ request[1].kind = "create"
    /\ pc[1] = "done"
    /\ IsDuplicateDate(response[1])
    /\ RowByDate(eco_records, request[1].record_data.date) # {}
    /\ Len(operation_logs) = 1

\* C3: when two creates for the same date both pass the pre-check, exactly one
\* record is stored and the loser receives the same DUPLICATE_DATE body as a
\* request rejected by the pre-check, never a 500.
C3_RaceLoser ==
    [][\A q \in Reqs :
         (/\ pc[q] = "create_commit"
          /\ Steps(q)
          /\ RowByDate(eco_records, request[q].record_data.date) # {})
         => /\ pc'[q] = "done"
            /\ response'[q] = DuplicateDatePrecheck
            /\ response'[q].status # 500
            /\ eco_records' = eco_records
            /\ Cardinality(RowByDate(eco_records', request[q].record_data.date)) = 1]_vars

\* both creates passed the pre-check, the winner has committed its row and the
\* loser is about to commit
C3_Witness ==
    \E q1, q2 \in Reqs :
        /\ q1 # q2
        /\ request[q1].kind = "create"
        /\ request[q2].kind = "create"
        /\ request[q1].record_data.date = request[q2].record_data.date
        /\ pc[q1] \in {"create_refresh", "create_log", "create_respond"}
        /\ pc[q2] = "create_commit"
        /\ The(local[q1].record) \in eco_records

\* C4: after a record is deleted, by delete or by clearAll, a subsequent create
\* for the same date succeeds and stores a new record: the delete leaves no row
\* behind, and a create that finds the date free passes the pre-check, inserts a
\* row with a fresh id and answers with success.
C4_RecreateAfterDelete ==
    [][\A q \in Reqs :
         /\ (pc[q] = "delete_commit" /\ pc'[q] = "delete_log")
            => /\ RowById(eco_records', request[q].record_id) = {}
               /\ eco_records' \subseteq eco_records
         /\ (pc[q] = "clear_commit" /\ pc'[q] = "clear_log")
            => eco_records' = {}
         /\ (/\ pc[q] = "create_check"
             /\ Steps(q)
             /\ RowByDate(eco_records, request[q].record_data.date) = {})
            => pc'[q] = "create_commit"
         /\ (/\ pc[q] = "create_commit"
             /\ Steps(q)
             /\ RowByDate(eco_records, request[q].record_data.date) = {}
             /\ faults' = faults)
            => /\ pc'[q] = "create_refresh"
               /\ \E r \in eco_records' :
                    /\ r.id = next_id
                    /\ r.date = request[q].record_data.date
                    /\ eco_records' = eco_records \cup {r}
                    /\ r \notin eco_records
         /\ (/\ pc[q] = "create_respond"
             /\ Steps(q)
             /\ RowById(eco_records, The(local[q].record).id) # {})
            => /\ response'[q].status = 200
               /\ response'[q].success]_vars

\* a record of some date was deleted (the audit log has its snapshot) and a later
\* create for that date answered success with a record of a larger id, now stored
C4_Witness ==
    \E q \in Reqs :
        /\ request[q].kind = "create"
        /\ pc[q] = "done"
        /\ response[q].success
        /\ \E i \in 1..Len(operation_logs) :
             /\ operation_logs[i].action = "DELETE"
             /\ operation_logs[i].old_data # None
             /\ The(operation_logs[i].old_data).date = request[q].record_data.date
             /\ The(operation_logs[i].record_id) < The(response[q].data).id
        /\ \E r \in eco_records : r.id = The(response[q].data).id

\* C5: for importBatch over any input list, existing dates are skipped or
\* overwritten, new dates are inserted and counted, and imported + updated +
\* skipped equals len(records) minus the per-record errors: an import that met
\* no injected failure answers success with counts that add up, and has stored
\* a row for every date it counted as imported.
C5_ImportCounts ==
    [][\A q \in Reqs :
         (pc[q] = "import_commit" /\ Steps(q) /\ faults' = faults)
         => /\ pc'[q] = "import_log"
            /\ \A i \in 1..Len(local[q].new) :
                 \E r \in eco_records' \ eco_records : Snapshot(r) = NewData(local[q].new[i])
            /\ local[q].imported + local[q].updated + local[q].skipped
                 = Len(request[q].records) - Len(local[q].errors)]_vars

\* C6: in importBatch a failure affecting one input record (a date colliding
\* with another record of the batch or with a concurrently created record) is
\* appended to errors, the remaining records are imported and persisted, and the
\* request returns success, not an error status.
C6_PartialSuccess ==
    [][\A q \in Reqs :
         (pc[q] = "import_commit" /\ Steps(q) /\ faults' = faults)
         => LET new == local[q].new
                collides(i) ==
                    \/ RowByDate(eco_records, new[i].date) # {}
                    \/ \E j \in 1..(i - 1) : new[j].date = new[i].date
            IN  /\ pc'[q] = "import_log"
                /\ \A i \in 1..Len(new) :
                     ~collides(i) => \E r \in eco_records' : Snapshot(r) = NewData(new[i])
                /\ \A i \in 1..Len(new) :
                     collides(i) => \E k \in 1..Len(local'[q].errors) :
                                       local'[q].errors[k] = new[i].date]_vars

\* C7: if the audit-log write fails during create, update, delete, clearAll or
\* importBatch, the committed mutation stays persisted and the request still
\* returns its success response; the failure is never surfaced to the caller.
C7_AuditFailureIsolated ==
    [][/\ (faults' = Append(faults, "log_operation"))
          => /\ eco_records' = eco_records
             /\ \A q \in Reqs :
                  Steps(q) =>
                    CASE pc[q] = "create_log" -> pc'[q] = "create_respond"
                      [] pc[q] = "update_log" -> pc'[q] = "update_respond"
                      [] pc[q] \in {"delete_log", "clear_log", "import_log"} ->
                           /\ pc'[q] = "done"
                           /\ response'[q].status = 200
                           /\ response'[q].success
                      [] OTHER -> FALSE
       /\ \A q \in Reqs :
            (/\ pc[q] \in {"create_respond", "update_respond"}
             /\ Steps(q)
             /\ RowById(eco_records, The(local[q].record).id) # {})
            => /\ response'[q].status = 200
               /\ response'[q].success
               /\ The(response'[q].data).id = The(local[q].record).id]_vars

\* the only request of the run was a create whose audit write failed: the record
\* is stored, the response is the success response, the log is empty
C7_Witness ==
    /\ started = 1
    /\ faults = <<"log_operation">>
    /\ request[1].kind = "create"
    /\ pc[1] = "done"
    /\ response[1].status = 200
    /\ response[1].success
    /\ \E r \in eco_records : r.id = The(response[1].data).id
    /\ operation_logs = << >>

\* C8: the operation log is append-only: every audit entry that exists in one
\* state exists unchanged in every later state; no request, clearAll included,
\* updates or deletes an OperationLog row.
C8_AppendOnly ==
    [][/\ Len(operation_logs') >= Len(operation_logs)
       /\ SubSeq(operation_logs', 1, Len(operation_logs)) = operation_logs]_vars

\* a clearAll has emptied eco_records and answered success, and the log still
\* holds the entries written before it, followed by the clearAll's own
C8_Witness ==
    \E q \in Reqs :
        /\ request[q].kind = "clear"
        /\ pc[q] = "done"
        /\ response[q].success
        /\ eco_records = {}
        /\ Len(operation_logs) >= 2
        /\ operation_logs[1].action = "CREATE"
        /\ operation_logs[Len(operation_logs)].description[1] = "Cleared"

\* C9: a successful update changes exactly the numeric fields supplied in the
\* request (0 counts as supplied), leaves the other numeric fields, the date and
\* created_by unchanged, and always sets updated_by to the caller and refreshes
\* updated_at.
C9_UpdateFrame ==
    [][\A q \in Reqs :
         (pc[q] = "update_commit" /\ pc'[q] = "update_refresh")
         => LET rd  == request[q].record_data
                old == The(RowById(eco_records, request[q].record_id))
                new == The(RowById(eco_records', request[q].record_id))
            IN  /\ \A a \in ApiFields :
                     new[Column(a)] = IF a \in DOMAIN rd THEN rd[a] ELSE old[Column(a)]
                /\ new.id = old.id
                /\ new.date = old.date
                /\ new.created_by = old.created_by
                /\ new.updated_by = Some(request[q].user)
                /\ new.updated_at = started
                /\ eco_records' \ {new} = eco_records \ {old}]_vars

\* a request body carries a negative quantity
HasNegative(r) ==
    CASE r.kind = "create" -> \E a \in ApiFields : r.record_data[a] < 0
      [] r.kind = "update" -> \E a \in DOMAIN r.record_data : r.record_data[a] < 0
      [] r.kind = "import" -> \E i \in 1..Len(r.records) :
                                 \E a \in ApiFields : r.records[i][a] < 0
      [] OTHER -> FALSE

\* C10: every stored EcoRecord has its four quantities >= 0 after any sequence
\* of create, update and importBatch requests; a request carrying a negative
\* value is rejected and changes nothing.
C10_NonNegative ==
    [][/\ \A r \in eco_records' : \A c \in Quantities : r[c] >= 0
       /\ \A q \in Reqs :
            HasNegative(request'[q])
            => /\ pc'[q] = "done"
               /\ response'[q] = ValidationRejected
               /\ (started' # started =>
                     /\ eco_records' = eco_records
                     /\ operation_logs' = operation_logs
                     /\ next_id' = next_id)]_vars

\* records are stored, and a create, an update or an import carrying a negative
\* quantity was answered with the validation error
C10_Witness ==
    /\ eco_records # {}
    /\ \E q \in Reqs :
         /\ HasNegative(request[q])
         /\ pc[q] = "done"
         /\ response[q].status = 422

\* C11: update and delete on a record id that does not exist return 404
\* not-found, change no record and write no audit entry.
C11_NotFound ==
    [][\A q \in Reqs :
         (/\ pc[q] \in {"update_load", "delete_load"}
          /\ Steps(q)
          /\ ~\E r \in eco_records : r.id = request[q].record_id)
         => /\ pc'[q] = "done"
            /\ response'[q].status = 404
            /\ ~response'[q].success
            /\ response'[q].error = "Record not found"
            /\ eco_records' = eco_records
            /\ operation_logs' = operation_logs]_vars

\* records are stored, and an update and a delete of ids that are not among them
\* were both answered 404
C11_Witness ==
    /\ eco_records # {}
    /\ \E q1, q2 \in Reqs :
         /\ request[q1].kind = "update"
         /\ request[q2].kind = "delete"
         /\ pc[q1] = "done" /\ response[q1].status = 404
         /\ pc[q2] = "done" /\ response[q2].status = 404
         /\ RowById(eco_records, request[q1].record_id) = {}
         /\ RowById(eco_records, request[q2].record_id) = {}

\* C12: clearAll without confirm=true is rejected before the handler runs and
\* deletes nothing; with confirm=true it leaves eco_records empty and writes
\* exactly one DELETE audit entry with a null record_id and no per-record entries.
C12_ClearAll ==
    [][\A q \in Reqs :
         /\ (request'[q].kind = "clear" /\ ~request'[q].confirm)
            => /\ pc'[q] = "done"
               /\ response'[q] = ValidationRejected
               /\ (started' # started =>
                     eco_records' = eco_records /\ operation_logs' = operation_logs)
         /\ (pc[q] = "clear_count" /\ Steps(q))
            => eco_records' = eco_records /\ operation_logs' = operation_logs
         /\ (pc[q] = "clear_commit" /\ Steps(q) /\ faults' = faults)
            => /\ pc'[q] = "clear_log"
               /\ eco_records' = {}
               /\ operation_logs' = operation_logs
         /\ (pc[q] = "clear_log" /\ Steps(q) /\ faults' = faults)
            => /\ eco_records' = eco_records
               /\ Len(operation_logs') = Len(operation_logs) + 1
               /\ operation_logs'[Len(operation_logs')].action = "DELETE"
               /\ operation_logs'[Len(operation_logs')].record_id = None
               /\ operation_logs'[Len(operation_logs')].user_id = request[q].user
               /\ response'[q].success
               /\ The(response'[q].data).deletedCount = local[q].count]_vars

\* the run's first request stored two records, the second was a confirmed
\* clearAll: the table is empty, the answer counts two deleted records and the
\* log's only DELETE entry is the clearAll's
C12_Witness ==
    /\ started = 2
    /\ eco_records = {}
    /\ \E q \in Reqs :
         /\ request[q].kind = "clear"
         /\ pc[q] = "done"
         /\ response[q].success
         /\ The(response[q].data).deletedCount = 2
    /\ Cardinality({i \in 1..Len(operation_logs) : operation_logs[i].action = "DELETE"}) = 1
    /\ operation_logs[Len(operation_logs)].record_id = None

\* the caller of request q presents a token that verify_token accepts now and
\* that names a stored user; the user is the set's only element
Caller(q) ==
    LET c == request[q].credentials IN
    IF c = None THEN {}
    ELSE IF verify_token(The(c), clock) = None THEN {}
    ELSE UserById(users, The(verify_token(The(c), clock)).user_id)

\* request q is answered in this step by the handler whose entry is label
Answers(q, label) == pc[q] = label /\ pc'[q] = "done"

\* C13: the logs query returns data only to an admin caller; an authenticated
\* non-admin caller gets 403 and no entries; a caller with no token, an invalid
\* token or an expired token gets 401, never the 403 of the role denial.
C13_LogsAdminOnly ==
    [][\A q \in Reqs : Answers(q, "logs") =>
         /\ response'[q].data # None =>
              Caller(q) # {} /\ The(Caller(q)).role = "admin"
         /\ (Caller(q) # {} /\ The(Caller(q)).role # "admin") =>
              response'[q].status = 403 /\ response'[q].data = None
         /\ Caller(q) = {} =>
              response'[q].status = 401 /\ response'[q].data = None]_vars

\* the registration rules, read off a register request r
StartsWithAt(r)    == Len(r.username) >= 1 /\ r.username[1] = "@"
LongUsername(r)    == Len(r.username) >= MinUsernameLen
LongPassword(r)    == Len(r.password) >= MinPasswordLen
ConfirmMatches(r)  == r.confirmPassword = r.password
RegisterRules(r)   == StartsWithAt(r) /\ LongUsername(r) /\ LongPassword(r) /\ ConfirmMatches(r)

\* the rows of users' whose id no row of users has
NewUsers == {u \in users' : UserById(users, u.id) = {}}

\* C15: registration stores a user only when the username starts with '@' and has
\* at least 3 characters, the password has at least 6 characters and
\* confirmPassword equals password; a register request that violates any rule is
\* rejected with the validation error and creates no user.
C15_RegisterRules ==
    [][/\ \A u \in NewUsers :
            \E q \in Reqs :
              /\ pc[q] = "register_commit"
              /\ RegisterRules(request[q])
              /\ u.username = request[q].username
              /\ u.password = request[q].password
       /\ \A q \in Reqs :
            (request'[q].kind = "register" /\ ~RegisterRules(request'[q]))
            => /\ pc'[q] = "done"
               /\ response'[q] = ValidationRejected
               /\ (started' # started => users' = users)]_vars

\* the register request in slot q was rejected and breaks rule k alone: no '@'
\* (1), a short username (2), a short password (3), a confirmPassword that
\* differs (4)
C15_SingleViolation(q, k) ==
    /\ request[q].kind = "register"
    /\ pc[q] = "done"
    /\ response[q].status = 422
    /\ {i \in 1..4 : ~<<StartsWithAt(request[q]), LongUsername(request[q]),
                         LongPassword(request[q]), ConfirmMatches(request[q])>>[i]} = {k}

\* a user has been registered, and a register request that breaks the password
\* rule alone has been rejected
C15_Witness ==
    /\ Cardinality(users) > Cardinality(InitialUsers)
    /\ \E q \in Reqs : C15_SingleViolation(q, 3)

\* the failure body of a duplicate username, carried by a non-error status
IsDuplicateUsername(r) ==
    /\ r.status < 400
    /\ r.success = FALSE
    /\ r.details # None
    /\ The(r.details).code = "DUPLICATE_USERNAME"
    /\ r.data = None

\* C16: a register for a username that is already stored is answered with the
\* DUPLICATE_USERNAME failure body under a non-error status and leaves users
\* unchanged, both when the handler's pre-check finds the name and when the
\* unique key rejects the insert of a request that passed the pre-check; and no
\* two stored users ever have the same username.
C16_DuplicateUsername ==
    [][/\ \A q \in Reqs :
            (/\ pc[q] \in {"register_check", "register_commit"}
             /\ Steps(q)
             /\ UserByName(users, request[q].username) # {})
            => /\ pc'[q] = "done"
               /\ IsDuplicateUsername(response'[q])
               /\ users' = users
       /\ \A u1, u2 \in users' : u1.username = u2.username => u1 = u2]_vars

\* both registers passed the pre-check, the winner has stored its user and the
\* loser is about to commit the same username
C16_Witness ==
    \E q1, q2 \in Reqs :
        /\ q1 # q2
        /\ request[q1].kind = "register"
        /\ request[q2].kind = "register"
        /\ request[q1].username = request[q2].username
        /\ pc[q1] \in {"register_respond", "done"}
        /\ pc[q2] = "register_commit"
        /\ UserByName(users \ InitialUsers, request[q2].username) # {}

\* the stored user whose username and password are exactly those of login request r
ExactMatch(r) == {u \in users : u.username = r.username /\ u.password = r.password}

\* C17: login succeeds only when the stored password equals the supplied one
\* exactly; a login the handler refuses is answered with the same 401 status and
\* body whether the username is unknown or the password is wrong; and a login
\* that does not succeed changes no user row.
C17_Login ==
    [][\A q \in Reqs :
         (request'[q].kind = "login" /\ pc'[q] = "done" /\ (Steps(q) \/ started' # started))
         => /\ response'[q].success =>
                 /\ ExactMatch(request'[q]) # {}
                 /\ The(response'[q].data).user.id = The(ExactMatch(request'[q])).id
                 /\ The(response'[q].data).token.claims = TokenData(The(ExactMatch(request'[q])))
            /\ (pc[q] = "login_authenticate" /\ UserByName(users, request[q].username) = {})
                 => response'[q] = HTTPException(401, "Invalid credentials")
            /\ (pc[q] = "login_authenticate" /\ UserByName(users, request[q].username) # {}
                  /\ The(UserByName(users, request[q].username)).password # request[q].password)
                 => response'[q] = HTTPException(401, "Invalid credentials")
            /\ ~response'[q].success => users' = users]_vars

\* a login has succeeded, a login for an unknown username and a login with a
\* wrong password for a stored username have both been refused, and the two
\* refusals are the same response
C17_Witness ==
    /\ \E u \in users : u.last_login_at # None
    /\ \E q1, q2 \in Reqs :
         /\ request[q1].kind = "login" /\ request[q2].kind = "login"
         /\ pc[q1] = "done" /\ pc[q2] = "done"
         /\ UserByName(users, request[q1].username) = {}
         /\ UserByName(users, request[q2].username) # {}
         /\ ExactMatch(request[q2]) = {}
         /\ response[q1].status = 401
         /\ response[q1] = response[q2]

\* C18: logout changes no server state, and a token that was accepted before a
\* logout is accepted by every authenticated endpoint after it, until it
\* expires: no step of the system makes an accepted token unaccepted while its
\* expiry has not passed.
C18_LogoutStateless ==
    [][/\ \A q \in Reqs : Answers(q, "logout") =>
            /\ users' = users
            /\ eco_records' = eco_records
            /\ operation_logs' = operation_logs
            /\ next_id' = next_id
            /\ Accepted(request[q].credentials) =>
                 /\ response'[q] = Success("Logout successful", None)
                 /\ Accepted(request[q].credentials)'
       /\ \A c \in Credentials :
            (Accepted(c) /\ ~(The(The(c).exp) < clock')) => Accepted(c)']_vars

\* a logout with a token has been answered with success, and a later request of
\* an authenticated endpoint presenting the same token is about to be served and
\* the token is accepted
C18_Witness ==
    \E q1, q2 \in Reqs :
        /\ request[q1].kind = "logout"
        /\ pc[q1] = "done"
        /\ response[q1].success
        /\ request[q2].kind \in {"logs", "logout"}
        /\ pc[q2] \in {"logs", "logout"}
        /\ request[q2].credentials = request[q1].credentials
        /\ Accepted(request[q2].credentials)

\* the three conditions of the claim on a token t at the present time
SignatureValid(t) == t.key = "JWT_SECRET"
ExpiryNotPassed(t) == ~(clock > The(t.exp))
ClaimsPresent(t)  == {"user_id", "username", "role"} \subseteq DOMAIN t.claims

\* C19: a token is accepted exactly when its signature is valid, its expiry,
\* the time of issue plus JWT_EXPIRE_HOURS (24), has not passed, and it carries
\* user_id, username and role; any other token is answered 401; so a token
\* issued at time t is refused at every time after t + JWT_EXPIRE_HOURS.
C19_VerifyToken ==
    [][\A q \in Reqs :
         /\ (Answers(q, "login_commit") /\ response'[q].success) =>
              The(response'[q].data).token.exp = Some(clock + 24)
         /\ ((Answers(q, "logout") \/ Answers(q, "logs")) /\ request[q].credentials # None) =>
              LET t == The(request[q].credentials) IN
              IF SignatureValid(t) /\ ExpiryNotPassed(t) /\ ClaimsPresent(t)
                THEN response'[q].status # 401
                ELSE response'[q] = HTTPException(401, "Invalid token")]_vars

\* a token with a valid signature and all three claims was presented after its
\* expiry and refused with 401
C19_Witness ==
    \E q \in Reqs :
        /\ request[q].kind \in {"logout", "logs"}
        /\ pc[q] = "done"
        /\ request[q].credentials # None
        /\ SignatureValid(The(request[q].credentials))
        /\ ClaimsPresent(The(request[q].credentials))
        /\ ~ExpiryNotPassed(The(request[q].credentials))
        /\ response[q].status = 401

\* the ids of the stored entries that satisfy every filter request r supplies
Wanted(r) ==
    {i \in 1..Len(operation_logs) :
        LET e == operation_logs[i] IN
        /\ (r.startDate # None => e.created_at >= Midnight(The(r.startDate)))
        /\ (r.endDate # None => e.created_at <= Midnight(The(r.endDate)))
        /\ (r.userId # None => e.user_id = The(r.userId))
        /\ (r.action # None => e.action = The(r.action))}

\* the ids in strict newest-first order: a later entry before an earlier one,
\* also among entries of one timestamp
NewestFirst(ids) ==
    CHOOSE o \in [1..Cardinality(ids) -> ids] :
        \A j, k \in 1..Cardinality(ids) : j < k => o[j] > o[k]

\* C14: the logs query returns exactly the entries that satisfy all supplied
\* filters (date range, userId, action), strictly ordered newest-first by
\* creation time, also among entries with the same creation timestamp: the
\* page returned is the page's slice of that one sequence.
C14_LogsFilterOrder ==
    [][\A q \in Reqs :
         (Answers(q, "logs") /\ response'[q].success) =>
           LET r    == request[q]
               logs == The(response'[q].data).logs
           IN  [j \in 1..Len(logs) |-> logs[j].id]
                 = OffsetLimit(NewestFirst(Wanted(r)), (r.page - 1) * r.limit, r.limit)]_vars

\* the stored records whose date lies in the inclusive range of list request r
InRange(r) ==
    {e \in eco_records :
        /\ (r.startDate # None => The(r.startDate) <= e.date)
        /\ (r.endDate # None => e.date <= The(r.endDate))}

\* the arrangements of the ids of the rows that are sorted on the API field in
\* the direction asked for
SortedIds(rows, field, direction) ==
    LET val(i) == format_record_response(The(RowById(rows, i)))[field]
        ids    == {e.id : e \in rows}
    IN  {o \in [1..Cardinality(ids) -> ids] :
           /\ \A j, k \in DOMAIN o : j # k => o[j] # o[k]
           /\ \A j, k \in DOMAIN o :
                j < k => IF direction = "asc" THEN val(o[j]) <= val(o[k])
                                              ELSE val(o[j]) >= val(o[k])}

\* the elements of seq at the offsets lo .. hi, counted from 0
AtOffsets(seq, lo, hi) ==
    [j \in 1..((IF hi < Len(seq) - 1 THEN hi ELSE Len(seq) - 1) - lo + 1) |-> seq[lo + j]]

\* C20: list with page p and limit L returns the records at offsets (p-1)*L ..
\* p*L-1 of the records whose date lies in the inclusive range, sorted by the
\* chosen field and direction, and reports the number of all matching records
\* as the total; without a limit it returns every matching record as a single
\* page (pages = 1) whatever page is requested.
C20_ListPage ==
    [][\A q \in Reqs :
         Answers(q, "list") =>
           LET r    == request[q]
               data == The(response'[q].data)
               ids  == [j \in DOMAIN data.records |-> data.records[j].id]
           IN  /\ response'[q].success
               /\ data.pagination.total = Cardinality(InRange(r))
               /\ \E o \in SortedIds(InRange(r), r.sortBy, r.sortOrder) :
                    IF r.limit # None
                      THEN ids = AtOffsets(o, (r.page - 1) * The(r.limit),
                                           r.page * The(r.limit) - 1)
                      ELSE ids = o /\ data.pagination.pages = 1
               /\ \A j \in DOMAIN data.records :
                    data.records[j] = format_record_response(The(RowById(eco_records, ids[j])))]_vars

\* two records are stored and a list request for page 2 with limit 1 was
\* answered with one record and a total of 2
C20_Witness ==
    \E q \in Reqs :
        /\ request[q].kind = "list"
        /\ pc[q] = "done"
        /\ request[q].page = 2
        /\ request[q].limit = Some(1)
        /\ The(response[q].data).pagination.total = 2
        /\ Len(The(response[q].data).records) = 1

\* the efficiency e, in millionths, is the quotient power / (drinkingWater +
\* irrigationWater) of the row rounded to 6 decimals, or 0 when the water sum
\* is 0
IsEfficiencyOf(e, row) ==
    LET w == row.drinking_water + row.irrigation_water
        d == 2 * w * e - 2 * row.power_consumption * Millionths
    IN  IF w > 0 THEN -w <= d /\ d <= w ELSE e = 0

\* C21: the efficiency reported for a record is power / (drinkingWater +
\* irrigationWater) rounded to 6 decimals when the water sum is > 0 and 0 when
\* it is 0, computed at each read from the fields stored at that moment; power
\* 100 with water 30 + 20 gives 2.0.
C21_Efficiency ==
    [][\A q \in Reqs :
         /\ (Answers(q, "list") /\ response'[q].success) =>
              \A j \in DOMAIN The(response'[q].data).records :
                LET rec == The(response'[q].data).records[j] IN
                /\ RowById(eco_records, rec.id) # {}
                /\ IsEfficiencyOf(rec.efficiency, The(RowById(eco_records, rec.id)))
         /\ (Answers(q, "update_respond") /\ response'[q].success) =>
              /\ RowById(eco_records, request[q].record_id) # {}
              /\ IsEfficiencyOf(The(response'[q].data).efficiency,
                                The(RowById(eco_records, request[q].record_id)))
         /\ calculate_efficiency_and_cost(
              [power_consumption |-> 100, drinking_water |-> 30, irrigation_water |-> 20,
               electricity_price |-> 1]).efficiency = 2 * Millionths]_vars

\* a list answered after an update made the record's fields power 100 and water
\* 30 + 20 reports efficiency 2.0
C21_Witness ==
    \E q \in Reqs :
        /\ request[q].kind = "list"
        /\ pc[q] = "done"
        /\ response[q].success
        /\ \E j \in DOMAIN The(response[q].data).records :
             LET rec == The(response[q].data).records[j] IN
             /\ rec.updatedBy # None
             /\ rec.powerConsumption = 100
             /\ rec.drinkingWater = 30
             /\ rec.irrigationWater = 20
             /\ rec.efficiency = 2 * Millionths

\* the round trips that write the audit entry of a single-record mutation
SingleLogSteps == {"create_log", "update_log", "delete_log"}

\* the audit action of the request kind
ActionOf(kind) ==
    CASE kind = "create" -> "CREATE"
      [] kind = "update" -> "UPDATE"
      [] kind = "delete" -> "DELETE"

\* C22: when the audit write does not fail, every successful create, update and
\* delete of a single record appends exactly one audit entry, with action
\* CREATE, UPDATE or DELETE respectively, the affected record's id as record_id
\* and the caller as user_id; the DELETE entry's old_data is the record's values
\* just before removal.
C22_AuditEntries ==
    [][\A q \in Reqs :
         /\ (pc[q] \in SingleLogSteps /\ Steps(q) /\ faults' = faults) =>
              /\ Len(operation_logs') = Len(operation_logs) + 1
              /\ SubSeq(operation_logs', 1, Len(operation_logs)) = operation_logs
              /\ LET e == operation_logs'[Len(operation_logs')] IN
                   /\ e.action = ActionOf(request[q].kind)
                   /\ e.user_id = request[q].user
                   /\ e.record_id = IF request[q].kind = "create"
                                      THEN Some(The(local[q].record).id)
                                      ELSE Some(request[q].record_id)
                   /\ request[q].kind = "delete" => e.old_data = local[q].old_data
         /\ (Steps(q) /\ request[q].kind \in {"create", "update", "delete"}
               /\ pc[q] \notin SingleLogSteps) =>
              /\ operation_logs' = operation_logs
              /\ response'[q].success => pc[q] \in {"create_respond", "update_respond"}
         /\ (pc[q] = "delete_commit" /\ pc'[q] = "delete_log"
               /\ RowById(eco_records, request[q].record_id) # {}) =>
              /\ RowById(eco_records', request[q].record_id) = {}
              /\ local'[q].old_data =
                   Some(Snapshot(The(RowById(eco_records, request[q].record_id))))]_vars

\* C23: a successful importBatch appends exactly one audit entry for the whole
\* batch, with null record_id and the imported, updated and skipped counts of
\* the response, however many records were inserted or overwritten; the steps
\* before it write no entry, so there are no per-record entries.
C23_ImportAudit ==
    [][\A q \in Reqs :
         (request[q].kind = "import" /\ Steps(q)) =>
           /\ pc[q] # "import_log" =>
                /\ operation_logs' = operation_logs
                /\ ~response'[q].success
           /\ (pc[q] = "import_log" /\ faults' = faults) =>
                /\ response'[q].success
                /\ Len(operation_logs') = Len(operation_logs) + 1
                /\ SubSeq(operation_logs', 1, Len(operation_logs)) = operation_logs
                /\ LET e == operation_logs'[Len(operation_logs')]
                       d == The(response'[q].data)
                   IN  /\ e.action = "CREATE"
                       /\ e.user_id = request[q].user
                       /\ e.record_id = None
                       /\ e.description = <<"Imported", d.imported, d.updated, d.skipped>>]_vars

\* an import that inserted two records was answered with success and the log
\* holds one entry
C23_Witness ==
    \E q \in Reqs :
        /\ request[q].kind = "import"
        /\ pc[q] = "done"
        /\ response[q].success
        /\ The(response[q].data).imported = 2
        /\ Cardinality(eco_records) = 2
        /\ Len(operation_logs) = 1

\* C24: the old_data snapshot of an UPDATE audit entry equals the record's
\* field values as they were immediately before that update was applied, in
\* every interleaving of concurrent updates of the same record: the snapshot
\* the request holds when its UPDATE commits is the row as stored just before,
\* and the entry written afterwards carries that snapshot.
C24_OldDataSnapshot ==
    [][\A q \in Reqs :
         /\ (pc[q] = "update_commit" /\ pc'[q] = "update_refresh") =>
              local[q].old_data =
                Some(Snapshot(The(RowById(eco_records, request[q].record_id))))
         /\ (pc[q] = "update_log" /\ Steps(q) /\ operation_logs' # operation_logs) =>
              /\ operation_logs'[Len(operation_logs')].action = "UPDATE"
              /\ operation_logs'[Len(operation_logs')].old_data = local[q].old_data
         /\ (request[q].kind = "update" /\ Steps(q) /\ pc[q] # "update_load") =>
              local'[q].old_data \in {local[q].old_data, None}]_vars

\* the ids of the rows of a table
Ids(rows) == {r.id : r \in rows}

\* the entries a step appends to operation_logs
Appended == {operation_logs'[i] : i \in (Len(operation_logs) + 1)..Len(operation_logs')}

\* C25 as stated, the create half: the audit entry of a create exists without
\* the record creation having been committed.  A handler's path is decided by
\* its input and by where the failure strikes, and the failure that leaves the
\* creation uncommitted is the failure of the record commit: when the first
\* request is a create whose record commit failed, the log holds its CREATE
\* entry.
C25_CreateReverse ==
    (/\ started = 1
     /\ pc[1] = "done"
     /\ request[1].kind = "create"
     /\ faults = <<"commit">>)
      => \E i \in 1..Len(operation_logs) :
            /\ operation_logs[i].action = "CREATE"
            /\ operation_logs[i].user_id = request[1].user

\* C25, amended: the record mutation and its audit write are separate commits:
\* no step writes both tables, and an id is handed out only by a step that
\* commits the row of that id.  The divergence goes one way only: a CREATE entry
\* that names a record is appended only after the commit that inserted that
\* record, so no audit entry exists for a creation that was not committed.
C25_AuditAfterCommit ==
    [][/\ eco_records' # eco_records => operation_logs' = operation_logs
       /\ next_id' >= next_id
       /\ Ids(eco_records') \ Ids(eco_records) = next_id..(next_id' - 1)
       /\ \A e \in Appended :
            (e.action = "CREATE" /\ e.record_id # None) =>
               /\ The(e.record_id) < next_id
               /\ \E q \in Reqs : /\ pc[q] = "create_log"
                                  /\ Steps(q)
                                  /\ The(e.record_id) = The(local[q].record).id]_vars

\* the divergence that is reachable: an update was committed and its request
\* has ended, and the log holds no UPDATE entry
C25_Witness ==
    /\ \A q \in Reqs : pc[q] \in {"idle", "done"}
    /\ \E q \in Reqs : request[q].kind = "update"
    /\ \E r \in eco_records : r.updated_by # None
    /\ \A i \in 1..Len(operation_logs) : operation_logs[i].action # "UPDATE"

\* C26: whenever a create, update, delete, clearAll or importBatch request ends
\* with a 500 response, eco_records contains no change made by that request.
\* Stated for requests made one after another, starting from the empty table:
\* when the first request is answered 500 the table is still empty, and when
\* the second request, an update or a delete, is answered 500 no record carries
\* an update and the record to be deleted is still stored.
C26_NoChangeOn500 ==
    /\ (started = 1 /\ pc[1] = "done" /\ response[1].status = 500) => eco_records = {}
    /\ (started = 2 /\ pc[1] = "done" /\ pc[2] = "idle" /\ response[1].status = 500) =>
         /\ request[1].kind = "update" => \A r \in eco_records : r.updated_by = None
         /\ request[1].kind = "delete" => RowById(eco_records, request[1].record_id) # {}

\* C27: in the logs query response totalPages is the ceiling of totalCount /
\* limit (the least number of pages of limit entries that hold totalCount
\* entries), hasPrev is true exactly when page > 1, and hasNext is true exactly
\* when matching entries exist beyond the current page (page * limit <
\* totalCount), for every page >= 1, the pages past the last one included;
\* totalCount is the number of entries the query matched.
C27_Pagination ==
    [][\A q \in Reqs :
         (Answers(q, "logs") /\ response'[q].success) =>
           LET r == request[q]
               p == The(response'[q].data).pagination
           IN  /\ p.totalCount = Cardinality(LogMatching(operation_logs, r, users))
               /\ p.currentPage = r.page
               /\ p.totalPages >= 0
               /\ p.totalPages * r.limit >= p.totalCount
               /\ p.totalPages > 0 => (p.totalPages - 1) * r.limit < p.totalCount
               /\ p.hasPrev <=> r.page > 1
               /\ p.hasNext <=> r.page * r.limit < p.totalCount]_vars

\* a query for page 2 of three matching entries with the default limit, a page
\* past the last one, was answered: one page in all, a previous page, no next
C27_Witness ==
    \E q \in Reqs :
        /\ request[q].kind = "logs"
        /\ pc[q] = "done"
        /\ response[q].success
        /\ request[q].page = 2
        /\ request[q].limit = DefaultLimit
        /\ LET p == The(response[q].data).pagination IN
             /\ p.totalCount = MaxLogs
             /\ p.totalPages = 1
             /\ p.hasPrev
             /\ ~p.hasNext

\* the ids of the administrators among rows
Admins(rows) == {u.id : u \in {v \in rows : v.role = "admin"}}

\* the row of users' with the id of u agrees with u on the fields named
SameIdentity(u, v) ==
    /\ v.id = u.id
    /\ v.username = u.username
    /\ v.password = u.password
    /\ v.role = u.role
    /\ v.created_at = u.created_at

\* C28 as stated: no operation deletes a user or changes a user's username,
\* password or role; the only user field changed after registration is
\* last_login_at; every user register creates has role 'user'; the set of
\* admin users never changes.
C28_OnlyLastLogin ==
    [][/\ \A u \in users : \E v \in users' :
            /\ SameIdentity(u, v)
            /\ v.updated_at = u.updated_at
       /\ \A v \in NewUsers : v.role = "user"
       /\ Admins(users') = Admins(users)]_vars

\* C28, amended: no operation deletes a user or changes a user's username,
\* password, role or created_at; the only user fields changed after registration
\* are last_login_at and, with it, updated_at, both by the commit of a
\* successful login of that user; every user register creates has role 'user';
\* the set of admin users never changes.
C28_UsersFrame ==
    [][/\ \A u \in users : \E v \in users' :
            /\ SameIdentity(u, v)
            /\ (v.last_login_at # u.last_login_at \/ v.updated_at # u.updated_at) =>
                 \E q \in Reqs :
                    /\ Answers(q, "login_commit")
                    /\ response'[q].success
                    /\ request[q].username = u.username
                    /\ request[q].password = u.password
                    /\ v.last_login_at = Some(clock)
                    /\ v.updated_at = clock
       /\ \A v \in NewUsers :
            /\ v.role = "user"
            /\ \E q \in Reqs : pc[q] = "register_commit" /\ Steps(q)
       /\ Cardinality(users') = Cardinality(users) + Cardinality(NewUsers)
       /\ Admins(users') = Admins(users)]_vars

\* a user has registered and a user has logged in at a later hour than the one
\* the row was stored at; the administrator is still user 1 alone
C28_Witness ==
    /\ Cardinality(users) = 3
    /\ \E u \in users : u.last_login_at # None /\ u.updated_at # u.created_at
    /\ \E u \in users : u.id = 3 /\ u.role = "user"
    /\ Admins(users) = {1}

\* C29: the deletedCount clearAll returns, and writes into its audit
\* description, equals the number of records the request removed, also when a
\* create or an import commits between clearAll's count and its delete: the
\* count the request holds when its DELETE commits is the number of rows that
\* commit removes, and the response and the audit entry carry that count.
C29_DeletedCount ==
    [][\A q \in Reqs :
         /\ (pc[q] = "clear_commit" /\ pc'[q] = "clear_log") =>
              /\ local[q].count = Cardinality(eco_records \ eco_records')
              /\ local'[q].count = local[q].count
         /\ (Answers(q, "clear_log") /\ response'[q].success) =>
              /\ The(response'[q].data).deletedCount = local[q].count
              /\ operation_logs' # operation_logs =>
                   operation_logs'[Len(operation_logs')].description
                     = <<"Cleared", local[q].count>>]_vars

\* the commit of import q stores every record its loop marked: each record to
\* insert is a new row with the record's values, each record to overwrite is the
\* row it was loaded from, now with the record's values
StoresAll(q) ==
    /\ \A i \in 1..Len(local[q].new) :
         \E r \in eco_records' : /\ r.id \notin Ids(eco_records)
                                 /\ Snapshot(r) = NewData(local[q].new[i])
    /\ \A o \in local[q].dirty :
         \E r \in eco_records' : /\ r.id = o.loaded.id
                                 /\ Snapshot(r) = NewData(o.record_data)
    /\ Cardinality(eco_records') = Cardinality(eco_records) + Len(local[q].new)

\* import q writes eco_records in its commit step only, and that step stores
\* all of the batch or nothing
ImportCommitsOnce(q) ==
    (request[q].kind = "import" /\ Steps(q)) =>
       /\ pc[q] # "import_commit" => eco_records' = eco_records
       /\ pc[q] = "import_commit" =>
            \/ pc'[q] = "import_log" /\ StoresAll(q)
            \/ response'[q].status = 500 /\ eco_records' = eco_records

\* the first request, an import into the empty table, has been answered
FirstImportDone == started = 1 /\ pc[1] = "done" /\ request[1].kind = "import"

\* C30: importBatch persists its inserts and overwrites in a single commit at
\* the end of the loop: the commit stores every non-skipped record of the batch
\* or none, no other step of the request writes eco_records, and after the
\* request either every such record is stored (success response) or none of
\* them is (500 response), here for an import into the empty table.
C30_AllOrNothing ==
    [][/\ \A q \in Reqs : ImportCommitsOnce(q)
       /\ FirstImportDone' =>
            /\ response'[1].success =>
                 Cardinality(eco_records') = The(response'[1].data).imported
            /\ response'[1].status = 500 => eco_records' = {}]_vars

====
